---- MODULE Spec2Model ----
(***************************************************************************)
(* Pay-period scripts of z3thon/yuki:                                      *)
(*   - the DayPattern parser and the template migration                    *)
(*     (scripts/create-pay-period-templates-table.py),                     *)
(*   - the period instantiator (described by spec.md section 4.3),         *)
(*   - the relevance classifier (scripts/debug_pay_periods.py),            *)
(*   - the punch aggregators (scripts/test_pay_period_totals.py and        *)
(*     scripts/test_employee_hours.py).                                    *)
(* Text is modelled as a sequence of one-character strings, so that        *)
(* splitting, stripping and int()/str() are computed, not assumed.         *)
(***************************************************************************)
EXTENDS Integers, Sequences, FiniteSets, TLC

VARIABLES
    days_str,      \* parser: the argument of parse_days_string
    parsed,        \* parser: its return value
    parse_pc,      \* parser: "call" | "done" | "idle"
    \* ---- the record store, as the template migration sees it
    departments_table,   \* the Departments table: a sequence of records
    templates_table,     \* the Pay Period Templates table: created records
    templates_table_exists,  \* whether the database lists that table
    link_as_list,        \* whether a listing gives department_id as a list
    \* ---- one run of main() of create-pay-period-templates-table.py
    mig_pc,              \* where main() is
    departments,         \* the fetched departments
    existing_dept_templates,  \* dept id -> its templates found by the listing
    dept_idx,            \* position of the department loop (1-based)
    start_days,          \* parsed lists of the department being resolved
    end_days,
    payout_days,
    period_i,            \* i, the period index of the inner loop (0-based)
    emitted,             \* record_data handed to create_record in this run
    migrated_count,
    skipped_count,
    mig_result,          \* "running" | "complete" | "aborted"
    runs,                \* runs of the migration started so far
    failures,            \* store calls that have failed so far
    failed_call,         \* where this run's failed store call was, or None
    \* ---- the period loop of main() on its own (lines 389-500)
    res_start_days,      \* start_days, end_days, payout_days of a department
    res_end_days,
    res_payout_days,
    res_i,               \* i of `for i in range(period_count)`
    res_templates,       \* the record_data built so far
    res_pc,              \* "loop" | "done" | "idle"
    \* ---- the period instantiator (spec.md 4.3)
    tpl,                 \* the template being instantiated
    anchor,              \* <<year, month>> of the anchor month
    pay_period,          \* the instantiated dates, or None
    inst_pc,             \* "call" | "done" | "idle"
    \* ---- main() of debug_pay_periods.py
    today,               \* datetime.now(): <<year, month, day, h, min, s>>
    pay_periods_table,   \* the Pay Periods table of the store
    pay_periods,         \* the analysed periods
    current_periods,
    upcoming_periods,
    past_periods,
    shown_period,        \* the period reported as current or most recent
    no_current_warning,  \* whether "No current pay period found!" was printed
    rel_pc,              \* "fetch" | "report" | "done" |
                         \* "raised" (ended by an exception) | "idle"
    \* ---- the record store, as the two aggregation scripts see it
    pay_period_record,   \* the pay period the punches are aggregated for
    time_cards_table,    \* the ids of the time cards of the pay period
    punch_pages,         \* the pages the Punches table is listed in
    endless_pages,       \* whether every page reports hasMore
    employees_table,     \* the records of the Employees table
    store_failures,      \* store calls of the aggregation that have failed
    \* ---- calculate_pay_period_totals of test_pay_period_totals.py
    tot_pc,              \* "time_cards" | "page" | "aggregate" | "done" |
                         \* "raised" (ended by an exception) | "beyond" | "idle"
    tot_time_card_ids,
    tot_time_card_count,
    tot_offset,
    tot_has_more,
    tot_all_punches,
    tot_requests,        \* the offsets of the page requests made, in order
    tot_page_failed,     \* whether a page request got a non-success response
    tot_limit_reported,  \* whether "Reached 10000 punches limit" was printed
    tot_filtered_punches,
    tot_fallback_reported,  \* whether "No punches linked ..." was printed
    tot_flagged,         \* how many "Error calculating hours" were printed
    tot_result,          \* the returned dict, or None
    \* ---- main() of test_employee_hours.py
    hrs_pc,              \* "time_cards" | "page" | "aggregate" | "done" |
                         \* "returned" (left early, nothing computed) |
                         \* "raised" (ended by an exception) | "idle"
    hrs_time_card_ids,
    hrs_offset,
    hrs_all_punches,
    hrs_requests,
    hrs_page_failed,
    hrs_filtered_punches,
    hrs_fallback_reported,
    hrs_flagged,
    hrs_employee_hours,  \* the summaries, sorted by employee name
    \* ---- the interpreter a script runs in
    stdout_errors,       \* the error handler of sys.stdout
    raised               \* the exception that ended the script: [type, line]

parseVars == <<days_str, parsed, parse_pc>>
storeVars == <<departments_table, templates_table, templates_table_exists,
              link_as_list>>
migVars == <<mig_pc, departments, existing_dept_templates, dept_idx, start_days,
             end_days, payout_days, period_i, emitted, migrated_count, skipped_count,
             mig_result, runs, failures, failed_call>>
resVars == <<res_start_days, res_end_days, res_payout_days, res_i,
             res_templates, res_pc>>
instVars == <<tpl, anchor, pay_period, inst_pc>>
relVars == <<today, pay_periods_table, pay_periods, current_periods,
             upcoming_periods, past_periods, shown_period,
             no_current_warning, rel_pc>>
aggStoreVars == <<pay_period_record, time_cards_table, punch_pages,
                  endless_pages, employees_table, store_failures>>
totVars == <<tot_pc, tot_time_card_ids, tot_time_card_count, tot_offset,
             tot_has_more, tot_all_punches, tot_requests, tot_page_failed,
             tot_limit_reported, tot_filtered_punches, tot_fallback_reported,
             tot_flagged, tot_result>>
hrsVars == <<hrs_pc, hrs_time_card_ids, hrs_offset, hrs_all_punches,
             hrs_requests, hrs_page_failed, hrs_filtered_punches,
             hrs_fallback_reported, hrs_flagged, hrs_employee_hours>>
aggVars == <<aggStoreVars, totVars, hrsVars>>
outVars == <<stdout_errors, raised>>
vars == <<parseVars, storeVars, migVars, resVars, instVars, relVars, aggVars,
          outVars>>

(***************************************************************************)
(* Python values                                                           *)
(***************************************************************************)
\* Python's None; a one-element tuple, so it compares with every text
None == <<"None">>

Digits == {"0", "1", "2", "3", "4", "5", "6", "7", "8", "9"}

DigitVal(c) ==
    CASE c = "0" -> 0 [] c = "1" -> 1 [] c = "2" -> 2 [] c = "3" -> 3
      [] c = "4" -> 4 [] c = "5" -> 5 [] c = "6" -> 6 [] c = "7" -> 7
      [] c = "8" -> 8 [] c = "9" -> 9

DigitChar(n) ==
    CASE n = 0 -> "0" [] n = 1 -> "1" [] n = 2 -> "2" [] n = 3 -> "3"
      [] n = 4 -> "4" [] n = 5 -> "5" [] n = 6 -> "6" [] n = 7 -> "7"
      [] n = 8 -> "8" [] n = 9 -> "9"

\* str.split(sep): the pieces between separators, empty pieces included
Split(s, sep) ==
    LET cuts == {0, Len(s) + 1} \cup {i \in 1..Len(s) : s[i] = sep}
        cut == [k \in 1..Cardinality(cuts) |->
                    CHOOSE i \in cuts : Cardinality({j \in cuts : j < i}) = k - 1]
    IN [k \in 1..(Cardinality(cuts) - 1) |->
            SubSeq(s, cut[k] + 1, cut[k + 1] - 1)]

SplitComma(s) == Split(s, ",")

\* the characters str.isspace() holds for; a character TLA+ has no
\* notation for is written as Python's ascii() writes it
Whitespace ==
    {" ", "\t", "\n", "\r", "\f", "\\x0b", "\\x1c", "\\x1d", "\\x1e", "\\x1f",
     "\\x85", "\\xa0", "\\u1680", "\\u2000", "\\u2001", "\\u2002", "\\u2003",
     "\\u2004", "\\u2005", "\\u2006", "\\u2007", "\\u2008", "\\u2009",
     "\\u200a", "\\u2028", "\\u2029", "\\u202f", "\\u205f", "\\u3000"}

\* the white space int() and float() skip around a number: the separators
\* 0x1c-0x1f are white space to str.strip() and not to them
NumberWhitespace == Whitespace \ {"\\x1c", "\\x1d", "\\x1e", "\\x1f"}

RECURSIVE LStripOf(_, _)
LStripOf(s, chars) ==
    IF s # <<>> /\ Head(s) \in chars THEN LStripOf(Tail(s), chars) ELSE s

RECURSIVE RStripOf(_, _)
RStripOf(s, chars) ==
    IF s # <<>> /\ s[Len(s)] \in chars
    THEN RStripOf(SubSeq(s, 1, Len(s) - 1), chars)
    ELSE s

\* str.strip(): leading and trailing white space removed
LStrip(s) == LStripOf(s, Whitespace)

RStrip(s) == RStripOf(s, Whitespace)

Strip(s) == RStrip(LStrip(s))

\* the lone surrogates U+D800 to U+DFFF, written as ascii() writes them:
\* characters of a JSON text that UTF-8 has no bytes for
Surrogates ==
    {"\\ud800", "\\ud801", "\\ud802", "\\ud803", "\\ud804", "\\ud805", "\\ud806", "\\ud807",
     "\\ud808", "\\ud809", "\\ud80a", "\\ud80b", "\\ud80c", "\\ud80d", "\\ud80e", "\\ud80f",
     "\\ud810", "\\ud811", "\\ud812", "\\ud813", "\\ud814", "\\ud815", "\\ud816", "\\ud817",
     "\\ud818", "\\ud819", "\\ud81a", "\\ud81b", "\\ud81c", "\\ud81d", "\\ud81e", "\\ud81f",
     "\\ud820", "\\ud821", "\\ud822", "\\ud823", "\\ud824", "\\ud825", "\\ud826", "\\ud827",
     "\\ud828", "\\ud829", "\\ud82a", "\\ud82b", "\\ud82c", "\\ud82d", "\\ud82e", "\\ud82f",
     "\\ud830", "\\ud831", "\\ud832", "\\ud833", "\\ud834", "\\ud835", "\\ud836", "\\ud837",
     "\\ud838", "\\ud839", "\\ud83a", "\\ud83b", "\\ud83c", "\\ud83d", "\\ud83e", "\\ud83f",
     "\\ud840", "\\ud841", "\\ud842", "\\ud843", "\\ud844", "\\ud845", "\\ud846", "\\ud847",
     "\\ud848", "\\ud849", "\\ud84a", "\\ud84b", "\\ud84c", "\\ud84d", "\\ud84e", "\\ud84f",
     "\\ud850", "\\ud851", "\\ud852", "\\ud853", "\\ud854", "\\ud855", "\\ud856", "\\ud857",
     "\\ud858", "\\ud859", "\\ud85a", "\\ud85b", "\\ud85c", "\\ud85d", "\\ud85e", "\\ud85f",
     "\\ud860", "\\ud861", "\\ud862", "\\ud863", "\\ud864", "\\ud865", "\\ud866", "\\ud867",
     "\\ud868", "\\ud869", "\\ud86a", "\\ud86b", "\\ud86c", "\\ud86d", "\\ud86e", "\\ud86f",
     "\\ud870", "\\ud871", "\\ud872", "\\ud873", "\\ud874", "\\ud875", "\\ud876", "\\ud877",
     "\\ud878", "\\ud879", "\\ud87a", "\\ud87b", "\\ud87c", "\\ud87d", "\\ud87e", "\\ud87f",
     "\\ud880", "\\ud881", "\\ud882", "\\ud883", "\\ud884", "\\ud885", "\\ud886", "\\ud887",
     "\\ud888", "\\ud889", "\\ud88a", "\\ud88b", "\\ud88c", "\\ud88d", "\\ud88e", "\\ud88f",
     "\\ud890", "\\ud891", "\\ud892", "\\ud893", "\\ud894", "\\ud895", "\\ud896", "\\ud897",
     "\\ud898", "\\ud899", "\\ud89a", "\\ud89b", "\\ud89c", "\\ud89d", "\\ud89e", "\\ud89f",
     "\\ud8a0", "\\ud8a1", "\\ud8a2", "\\ud8a3", "\\ud8a4", "\\ud8a5", "\\ud8a6", "\\ud8a7",
     "\\ud8a8", "\\ud8a9", "\\ud8aa", "\\ud8ab", "\\ud8ac", "\\ud8ad", "\\ud8ae", "\\ud8af",
     "\\ud8b0", "\\ud8b1", "\\ud8b2", "\\ud8b3", "\\ud8b4", "\\ud8b5", "\\ud8b6", "\\ud8b7",
     "\\ud8b8", "\\ud8b9", "\\ud8ba", "\\ud8bb", "\\ud8bc", "\\ud8bd", "\\ud8be", "\\ud8bf",
     "\\ud8c0", "\\ud8c1", "\\ud8c2", "\\ud8c3", "\\ud8c4", "\\ud8c5", "\\ud8c6", "\\ud8c7",
     "\\ud8c8", "\\ud8c9", "\\ud8ca", "\\ud8cb", "\\ud8cc", "\\ud8cd", "\\ud8ce", "\\ud8cf",
     "\\ud8d0", "\\ud8d1", "\\ud8d2", "\\ud8d3", "\\ud8d4", "\\ud8d5", "\\ud8d6", "\\ud8d7",
     "\\ud8d8", "\\ud8d9", "\\ud8da", "\\ud8db", "\\ud8dc", "\\ud8dd", "\\ud8de", "\\ud8df",
     "\\ud8e0", "\\ud8e1", "\\ud8e2", "\\ud8e3", "\\ud8e4", "\\ud8e5", "\\ud8e6", "\\ud8e7",
     "\\ud8e8", "\\ud8e9", "\\ud8ea", "\\ud8eb", "\\ud8ec", "\\ud8ed", "\\ud8ee", "\\ud8ef",
     "\\ud8f0", "\\ud8f1", "\\ud8f2", "\\ud8f3", "\\ud8f4", "\\ud8f5", "\\ud8f6", "\\ud8f7",
     "\\ud8f8", "\\ud8f9", "\\ud8fa", "\\ud8fb", "\\ud8fc", "\\ud8fd", "\\ud8fe", "\\ud8ff",
     "\\ud900", "\\ud901", "\\ud902", "\\ud903", "\\ud904", "\\ud905", "\\ud906", "\\ud907",
     "\\ud908", "\\ud909", "\\ud90a", "\\ud90b", "\\ud90c", "\\ud90d", "\\ud90e", "\\ud90f",
     "\\ud910", "\\ud911", "\\ud912", "\\ud913", "\\ud914", "\\ud915", "\\ud916", "\\ud917",
     "\\ud918", "\\ud919", "\\ud91a", "\\ud91b", "\\ud91c", "\\ud91d", "\\ud91e", "\\ud91f",
     "\\ud920", "\\ud921", "\\ud922", "\\ud923", "\\ud924", "\\ud925", "\\ud926", "\\ud927",
     "\\ud928", "\\ud929", "\\ud92a", "\\ud92b", "\\ud92c", "\\ud92d", "\\ud92e", "\\ud92f",
     "\\ud930", "\\ud931", "\\ud932", "\\ud933", "\\ud934", "\\ud935", "\\ud936", "\\ud937",
     "\\ud938", "\\ud939", "\\ud93a", "\\ud93b", "\\ud93c", "\\ud93d", "\\ud93e", "\\ud93f",
     "\\ud940", "\\ud941", "\\ud942", "\\ud943", "\\ud944", "\\ud945", "\\ud946", "\\ud947",
     "\\ud948", "\\ud949", "\\ud94a", "\\ud94b", "\\ud94c", "\\ud94d", "\\ud94e", "\\ud94f",
     "\\ud950", "\\ud951", "\\ud952", "\\ud953", "\\ud954", "\\ud955", "\\ud956", "\\ud957",
     "\\ud958", "\\ud959", "\\ud95a", "\\ud95b", "\\ud95c", "\\ud95d", "\\ud95e", "\\ud95f",
     "\\ud960", "\\ud961", "\\ud962", "\\ud963", "\\ud964", "\\ud965", "\\ud966", "\\ud967",
     "\\ud968", "\\ud969", "\\ud96a", "\\ud96b", "\\ud96c", "\\ud96d", "\\ud96e", "\\ud96f",
     "\\ud970", "\\ud971", "\\ud972", "\\ud973", "\\ud974", "\\ud975", "\\ud976", "\\ud977",
     "\\ud978", "\\ud979", "\\ud97a", "\\ud97b", "\\ud97c", "\\ud97d", "\\ud97e", "\\ud97f",
     "\\ud980", "\\ud981", "\\ud982", "\\ud983", "\\ud984", "\\ud985", "\\ud986", "\\ud987",
     "\\ud988", "\\ud989", "\\ud98a", "\\ud98b", "\\ud98c", "\\ud98d", "\\ud98e", "\\ud98f",
     "\\ud990", "\\ud991", "\\ud992", "\\ud993", "\\ud994", "\\ud995", "\\ud996", "\\ud997",
     "\\ud998", "\\ud999", "\\ud99a", "\\ud99b", "\\ud99c", "\\ud99d", "\\ud99e", "\\ud99f",
     "\\ud9a0", "\\ud9a1", "\\ud9a2", "\\ud9a3", "\\ud9a4", "\\ud9a5", "\\ud9a6", "\\ud9a7",
     "\\ud9a8", "\\ud9a9", "\\ud9aa", "\\ud9ab", "\\ud9ac", "\\ud9ad", "\\ud9ae", "\\ud9af",
     "\\ud9b0", "\\ud9b1", "\\ud9b2", "\\ud9b3", "\\ud9b4", "\\ud9b5", "\\ud9b6", "\\ud9b7",
     "\\ud9b8", "\\ud9b9", "\\ud9ba", "\\ud9bb", "\\ud9bc", "\\ud9bd", "\\ud9be", "\\ud9bf",
     "\\ud9c0", "\\ud9c1", "\\ud9c2", "\\ud9c3", "\\ud9c4", "\\ud9c5", "\\ud9c6", "\\ud9c7",
     "\\ud9c8", "\\ud9c9", "\\ud9ca", "\\ud9cb", "\\ud9cc", "\\ud9cd", "\\ud9ce", "\\ud9cf",
     "\\ud9d0", "\\ud9d1", "\\ud9d2", "\\ud9d3", "\\ud9d4", "\\ud9d5", "\\ud9d6", "\\ud9d7",
     "\\ud9d8", "\\ud9d9", "\\ud9da", "\\ud9db", "\\ud9dc", "\\ud9dd", "\\ud9de", "\\ud9df",
     "\\ud9e0", "\\ud9e1", "\\ud9e2", "\\ud9e3", "\\ud9e4", "\\ud9e5", "\\ud9e6", "\\ud9e7",
     "\\ud9e8", "\\ud9e9", "\\ud9ea", "\\ud9eb", "\\ud9ec", "\\ud9ed", "\\ud9ee", "\\ud9ef",
     "\\ud9f0", "\\ud9f1", "\\ud9f2", "\\ud9f3", "\\ud9f4", "\\ud9f5", "\\ud9f6", "\\ud9f7",
     "\\ud9f8", "\\ud9f9", "\\ud9fa", "\\ud9fb", "\\ud9fc", "\\ud9fd", "\\ud9fe", "\\ud9ff",
     "\\uda00", "\\uda01", "\\uda02", "\\uda03", "\\uda04", "\\uda05", "\\uda06", "\\uda07",
     "\\uda08", "\\uda09", "\\uda0a", "\\uda0b", "\\uda0c", "\\uda0d", "\\uda0e", "\\uda0f",
     "\\uda10", "\\uda11", "\\uda12", "\\uda13", "\\uda14", "\\uda15", "\\uda16", "\\uda17",
     "\\uda18", "\\uda19", "\\uda1a", "\\uda1b", "\\uda1c", "\\uda1d", "\\uda1e", "\\uda1f",
     "\\uda20", "\\uda21", "\\uda22", "\\uda23", "\\uda24", "\\uda25", "\\uda26", "\\uda27",
     "\\uda28", "\\uda29", "\\uda2a", "\\uda2b", "\\uda2c", "\\uda2d", "\\uda2e", "\\uda2f",
     "\\uda30", "\\uda31", "\\uda32", "\\uda33", "\\uda34", "\\uda35", "\\uda36", "\\uda37",
     "\\uda38", "\\uda39", "\\uda3a", "\\uda3b", "\\uda3c", "\\uda3d", "\\uda3e", "\\uda3f",
     "\\uda40", "\\uda41", "\\uda42", "\\uda43", "\\uda44", "\\uda45", "\\uda46", "\\uda47",
     "\\uda48", "\\uda49", "\\uda4a", "\\uda4b", "\\uda4c", "\\uda4d", "\\uda4e", "\\uda4f",
     "\\uda50", "\\uda51", "\\uda52", "\\uda53", "\\uda54", "\\uda55", "\\uda56", "\\uda57",
     "\\uda58", "\\uda59", "\\uda5a", "\\uda5b", "\\uda5c", "\\uda5d", "\\uda5e", "\\uda5f",
     "\\uda60", "\\uda61", "\\uda62", "\\uda63", "\\uda64", "\\uda65", "\\uda66", "\\uda67",
     "\\uda68", "\\uda69", "\\uda6a", "\\uda6b", "\\uda6c", "\\uda6d", "\\uda6e", "\\uda6f",
     "\\uda70", "\\uda71", "\\uda72", "\\uda73", "\\uda74", "\\uda75", "\\uda76", "\\uda77",
     "\\uda78", "\\uda79", "\\uda7a", "\\uda7b", "\\uda7c", "\\uda7d", "\\uda7e", "\\uda7f",
     "\\uda80", "\\uda81", "\\uda82", "\\uda83", "\\uda84", "\\uda85", "\\uda86", "\\uda87",
     "\\uda88", "\\uda89", "\\uda8a", "\\uda8b", "\\uda8c", "\\uda8d", "\\uda8e", "\\uda8f",
     "\\uda90", "\\uda91", "\\uda92", "\\uda93", "\\uda94", "\\uda95", "\\uda96", "\\uda97",
     "\\uda98", "\\uda99", "\\uda9a", "\\uda9b", "\\uda9c", "\\uda9d", "\\uda9e", "\\uda9f",
     "\\udaa0", "\\udaa1", "\\udaa2", "\\udaa3", "\\udaa4", "\\udaa5", "\\udaa6", "\\udaa7",
     "\\udaa8", "\\udaa9", "\\udaaa", "\\udaab", "\\udaac", "\\udaad", "\\udaae", "\\udaaf",
     "\\udab0", "\\udab1", "\\udab2", "\\udab3", "\\udab4", "\\udab5", "\\udab6", "\\udab7",
     "\\udab8", "\\udab9", "\\udaba", "\\udabb", "\\udabc", "\\udabd", "\\udabe", "\\udabf",
     "\\udac0", "\\udac1", "\\udac2", "\\udac3", "\\udac4", "\\udac5", "\\udac6", "\\udac7",
     "\\udac8", "\\udac9", "\\udaca", "\\udacb", "\\udacc", "\\udacd", "\\udace", "\\udacf",
     "\\udad0", "\\udad1", "\\udad2", "\\udad3", "\\udad4", "\\udad5", "\\udad6", "\\udad7",
     "\\udad8", "\\udad9", "\\udada", "\\udadb", "\\udadc", "\\udadd", "\\udade", "\\udadf",
     "\\udae0", "\\udae1", "\\udae2", "\\udae3", "\\udae4", "\\udae5", "\\udae6", "\\udae7",
     "\\udae8", "\\udae9", "\\udaea", "\\udaeb", "\\udaec", "\\udaed", "\\udaee", "\\udaef",
     "\\udaf0", "\\udaf1", "\\udaf2", "\\udaf3", "\\udaf4", "\\udaf5", "\\udaf6", "\\udaf7",
     "\\udaf8", "\\udaf9", "\\udafa", "\\udafb", "\\udafc", "\\udafd", "\\udafe", "\\udaff",
     "\\udb00", "\\udb01", "\\udb02", "\\udb03", "\\udb04", "\\udb05", "\\udb06", "\\udb07",
     "\\udb08", "\\udb09", "\\udb0a", "\\udb0b", "\\udb0c", "\\udb0d", "\\udb0e", "\\udb0f",
     "\\udb10", "\\udb11", "\\udb12", "\\udb13", "\\udb14", "\\udb15", "\\udb16", "\\udb17",
     "\\udb18", "\\udb19", "\\udb1a", "\\udb1b", "\\udb1c", "\\udb1d", "\\udb1e", "\\udb1f",
     "\\udb20", "\\udb21", "\\udb22", "\\udb23", "\\udb24", "\\udb25", "\\udb26", "\\udb27",
     "\\udb28", "\\udb29", "\\udb2a", "\\udb2b", "\\udb2c", "\\udb2d", "\\udb2e", "\\udb2f",
     "\\udb30", "\\udb31", "\\udb32", "\\udb33", "\\udb34", "\\udb35", "\\udb36", "\\udb37",
     "\\udb38", "\\udb39", "\\udb3a", "\\udb3b", "\\udb3c", "\\udb3d", "\\udb3e", "\\udb3f",
     "\\udb40", "\\udb41", "\\udb42", "\\udb43", "\\udb44", "\\udb45", "\\udb46", "\\udb47",
     "\\udb48", "\\udb49", "\\udb4a", "\\udb4b", "\\udb4c", "\\udb4d", "\\udb4e", "\\udb4f",
     "\\udb50", "\\udb51", "\\udb52", "\\udb53", "\\udb54", "\\udb55", "\\udb56", "\\udb57",
     "\\udb58", "\\udb59", "\\udb5a", "\\udb5b", "\\udb5c", "\\udb5d", "\\udb5e", "\\udb5f",
     "\\udb60", "\\udb61", "\\udb62", "\\udb63", "\\udb64", "\\udb65", "\\udb66", "\\udb67",
     "\\udb68", "\\udb69", "\\udb6a", "\\udb6b", "\\udb6c", "\\udb6d", "\\udb6e", "\\udb6f",
     "\\udb70", "\\udb71", "\\udb72", "\\udb73", "\\udb74", "\\udb75", "\\udb76", "\\udb77",
     "\\udb78", "\\udb79", "\\udb7a", "\\udb7b", "\\udb7c", "\\udb7d", "\\udb7e", "\\udb7f",
     "\\udb80", "\\udb81", "\\udb82", "\\udb83", "\\udb84", "\\udb85", "\\udb86", "\\udb87",
     "\\udb88", "\\udb89", "\\udb8a", "\\udb8b", "\\udb8c", "\\udb8d", "\\udb8e", "\\udb8f",
     "\\udb90", "\\udb91", "\\udb92", "\\udb93", "\\udb94", "\\udb95", "\\udb96", "\\udb97",
     "\\udb98", "\\udb99", "\\udb9a", "\\udb9b", "\\udb9c", "\\udb9d", "\\udb9e", "\\udb9f",
     "\\udba0", "\\udba1", "\\udba2", "\\udba3", "\\udba4", "\\udba5", "\\udba6", "\\udba7",
     "\\udba8", "\\udba9", "\\udbaa", "\\udbab", "\\udbac", "\\udbad", "\\udbae", "\\udbaf",
     "\\udbb0", "\\udbb1", "\\udbb2", "\\udbb3", "\\udbb4", "\\udbb5", "\\udbb6", "\\udbb7",
     "\\udbb8", "\\udbb9", "\\udbba", "\\udbbb", "\\udbbc", "\\udbbd", "\\udbbe", "\\udbbf",
     "\\udbc0", "\\udbc1", "\\udbc2", "\\udbc3", "\\udbc4", "\\udbc5", "\\udbc6", "\\udbc7",
     "\\udbc8", "\\udbc9", "\\udbca", "\\udbcb", "\\udbcc", "\\udbcd", "\\udbce", "\\udbcf",
     "\\udbd0", "\\udbd1", "\\udbd2", "\\udbd3", "\\udbd4", "\\udbd5", "\\udbd6", "\\udbd7",
     "\\udbd8", "\\udbd9", "\\udbda", "\\udbdb", "\\udbdc", "\\udbdd", "\\udbde", "\\udbdf",
     "\\udbe0", "\\udbe1", "\\udbe2", "\\udbe3", "\\udbe4", "\\udbe5", "\\udbe6", "\\udbe7",
     "\\udbe8", "\\udbe9", "\\udbea", "\\udbeb", "\\udbec", "\\udbed", "\\udbee", "\\udbef",
     "\\udbf0", "\\udbf1", "\\udbf2", "\\udbf3", "\\udbf4", "\\udbf5", "\\udbf6", "\\udbf7",
     "\\udbf8", "\\udbf9", "\\udbfa", "\\udbfb", "\\udbfc", "\\udbfd", "\\udbfe", "\\udbff",
     "\\udc00", "\\udc01", "\\udc02", "\\udc03", "\\udc04", "\\udc05", "\\udc06", "\\udc07",
     "\\udc08", "\\udc09", "\\udc0a", "\\udc0b", "\\udc0c", "\\udc0d", "\\udc0e", "\\udc0f",
     "\\udc10", "\\udc11", "\\udc12", "\\udc13", "\\udc14", "\\udc15", "\\udc16", "\\udc17",
     "\\udc18", "\\udc19", "\\udc1a", "\\udc1b", "\\udc1c", "\\udc1d", "\\udc1e", "\\udc1f",
     "\\udc20", "\\udc21", "\\udc22", "\\udc23", "\\udc24", "\\udc25", "\\udc26", "\\udc27",
     "\\udc28", "\\udc29", "\\udc2a", "\\udc2b", "\\udc2c", "\\udc2d", "\\udc2e", "\\udc2f",
     "\\udc30", "\\udc31", "\\udc32", "\\udc33", "\\udc34", "\\udc35", "\\udc36", "\\udc37",
     "\\udc38", "\\udc39", "\\udc3a", "\\udc3b", "\\udc3c", "\\udc3d", "\\udc3e", "\\udc3f",
     "\\udc40", "\\udc41", "\\udc42", "\\udc43", "\\udc44", "\\udc45", "\\udc46", "\\udc47",
     "\\udc48", "\\udc49", "\\udc4a", "\\udc4b", "\\udc4c", "\\udc4d", "\\udc4e", "\\udc4f",
     "\\udc50", "\\udc51", "\\udc52", "\\udc53", "\\udc54", "\\udc55", "\\udc56", "\\udc57",
     "\\udc58", "\\udc59", "\\udc5a", "\\udc5b", "\\udc5c", "\\udc5d", "\\udc5e", "\\udc5f",
     "\\udc60", "\\udc61", "\\udc62", "\\udc63", "\\udc64", "\\udc65", "\\udc66", "\\udc67",
     "\\udc68", "\\udc69", "\\udc6a", "\\udc6b", "\\udc6c", "\\udc6d", "\\udc6e", "\\udc6f",
     "\\udc70", "\\udc71", "\\udc72", "\\udc73", "\\udc74", "\\udc75", "\\udc76", "\\udc77",
     "\\udc78", "\\udc79", "\\udc7a", "\\udc7b", "\\udc7c", "\\udc7d", "\\udc7e", "\\udc7f",
     "\\udc80", "\\udc81", "\\udc82", "\\udc83", "\\udc84", "\\udc85", "\\udc86", "\\udc87",
     "\\udc88", "\\udc89", "\\udc8a", "\\udc8b", "\\udc8c", "\\udc8d", "\\udc8e", "\\udc8f",
     "\\udc90", "\\udc91", "\\udc92", "\\udc93", "\\udc94", "\\udc95", "\\udc96", "\\udc97",
     "\\udc98", "\\udc99", "\\udc9a", "\\udc9b", "\\udc9c", "\\udc9d", "\\udc9e", "\\udc9f",
     "\\udca0", "\\udca1", "\\udca2", "\\udca3", "\\udca4", "\\udca5", "\\udca6", "\\udca7",
     "\\udca8", "\\udca9", "\\udcaa", "\\udcab", "\\udcac", "\\udcad", "\\udcae", "\\udcaf",
     "\\udcb0", "\\udcb1", "\\udcb2", "\\udcb3", "\\udcb4", "\\udcb5", "\\udcb6", "\\udcb7",
     "\\udcb8", "\\udcb9", "\\udcba", "\\udcbb", "\\udcbc", "\\udcbd", "\\udcbe", "\\udcbf",
     "\\udcc0", "\\udcc1", "\\udcc2", "\\udcc3", "\\udcc4", "\\udcc5", "\\udcc6", "\\udcc7",
     "\\udcc8", "\\udcc9", "\\udcca", "\\udccb", "\\udccc", "\\udccd", "\\udcce", "\\udccf",
     "\\udcd0", "\\udcd1", "\\udcd2", "\\udcd3", "\\udcd4", "\\udcd5", "\\udcd6", "\\udcd7",
     "\\udcd8", "\\udcd9", "\\udcda", "\\udcdb", "\\udcdc", "\\udcdd", "\\udcde", "\\udcdf",
     "\\udce0", "\\udce1", "\\udce2", "\\udce3", "\\udce4", "\\udce5", "\\udce6", "\\udce7",
     "\\udce8", "\\udce9", "\\udcea", "\\udceb", "\\udcec", "\\udced", "\\udcee", "\\udcef",
     "\\udcf0", "\\udcf1", "\\udcf2", "\\udcf3", "\\udcf4", "\\udcf5", "\\udcf6", "\\udcf7",
     "\\udcf8", "\\udcf9", "\\udcfa", "\\udcfb", "\\udcfc", "\\udcfd", "\\udcfe", "\\udcff",
     "\\udd00", "\\udd01", "\\udd02", "\\udd03", "\\udd04", "\\udd05", "\\udd06", "\\udd07",
     "\\udd08", "\\udd09", "\\udd0a", "\\udd0b", "\\udd0c", "\\udd0d", "\\udd0e", "\\udd0f",
     "\\udd10", "\\udd11", "\\udd12", "\\udd13", "\\udd14", "\\udd15", "\\udd16", "\\udd17",
     "\\udd18", "\\udd19", "\\udd1a", "\\udd1b", "\\udd1c", "\\udd1d", "\\udd1e", "\\udd1f",
     "\\udd20", "\\udd21", "\\udd22", "\\udd23", "\\udd24", "\\udd25", "\\udd26", "\\udd27",
     "\\udd28", "\\udd29", "\\udd2a", "\\udd2b", "\\udd2c", "\\udd2d", "\\udd2e", "\\udd2f",
     "\\udd30", "\\udd31", "\\udd32", "\\udd33", "\\udd34", "\\udd35", "\\udd36", "\\udd37",
     "\\udd38", "\\udd39", "\\udd3a", "\\udd3b", "\\udd3c", "\\udd3d", "\\udd3e", "\\udd3f",
     "\\udd40", "\\udd41", "\\udd42", "\\udd43", "\\udd44", "\\udd45", "\\udd46", "\\udd47",
     "\\udd48", "\\udd49", "\\udd4a", "\\udd4b", "\\udd4c", "\\udd4d", "\\udd4e", "\\udd4f",
     "\\udd50", "\\udd51", "\\udd52", "\\udd53", "\\udd54", "\\udd55", "\\udd56", "\\udd57",
     "\\udd58", "\\udd59", "\\udd5a", "\\udd5b", "\\udd5c", "\\udd5d", "\\udd5e", "\\udd5f",
     "\\udd60", "\\udd61", "\\udd62", "\\udd63", "\\udd64", "\\udd65", "\\udd66", "\\udd67",
     "\\udd68", "\\udd69", "\\udd6a", "\\udd6b", "\\udd6c", "\\udd6d", "\\udd6e", "\\udd6f",
     "\\udd70", "\\udd71", "\\udd72", "\\udd73", "\\udd74", "\\udd75", "\\udd76", "\\udd77",
     "\\udd78", "\\udd79", "\\udd7a", "\\udd7b", "\\udd7c", "\\udd7d", "\\udd7e", "\\udd7f",
     "\\udd80", "\\udd81", "\\udd82", "\\udd83", "\\udd84", "\\udd85", "\\udd86", "\\udd87",
     "\\udd88", "\\udd89", "\\udd8a", "\\udd8b", "\\udd8c", "\\udd8d", "\\udd8e", "\\udd8f",
     "\\udd90", "\\udd91", "\\udd92", "\\udd93", "\\udd94", "\\udd95", "\\udd96", "\\udd97",
     "\\udd98", "\\udd99", "\\udd9a", "\\udd9b", "\\udd9c", "\\udd9d", "\\udd9e", "\\udd9f",
     "\\udda0", "\\udda1", "\\udda2", "\\udda3", "\\udda4", "\\udda5", "\\udda6", "\\udda7",
     "\\udda8", "\\udda9", "\\uddaa", "\\uddab", "\\uddac", "\\uddad", "\\uddae", "\\uddaf",
     "\\uddb0", "\\uddb1", "\\uddb2", "\\uddb3", "\\uddb4", "\\uddb5", "\\uddb6", "\\uddb7",
     "\\uddb8", "\\uddb9", "\\uddba", "\\uddbb", "\\uddbc", "\\uddbd", "\\uddbe", "\\uddbf",
     "\\uddc0", "\\uddc1", "\\uddc2", "\\uddc3", "\\uddc4", "\\uddc5", "\\uddc6", "\\uddc7",
     "\\uddc8", "\\uddc9", "\\uddca", "\\uddcb", "\\uddcc", "\\uddcd", "\\uddce", "\\uddcf",
     "\\uddd0", "\\uddd1", "\\uddd2", "\\uddd3", "\\uddd4", "\\uddd5", "\\uddd6", "\\uddd7",
     "\\uddd8", "\\uddd9", "\\uddda", "\\udddb", "\\udddc", "\\udddd", "\\uddde", "\\udddf",
     "\\udde0", "\\udde1", "\\udde2", "\\udde3", "\\udde4", "\\udde5", "\\udde6", "\\udde7",
     "\\udde8", "\\udde9", "\\uddea", "\\uddeb", "\\uddec", "\\udded", "\\uddee", "\\uddef",
     "\\uddf0", "\\uddf1", "\\uddf2", "\\uddf3", "\\uddf4", "\\uddf5", "\\uddf6", "\\uddf7",
     "\\uddf8", "\\uddf9", "\\uddfa", "\\uddfb", "\\uddfc", "\\uddfd", "\\uddfe", "\\uddff",
     "\\ude00", "\\ude01", "\\ude02", "\\ude03", "\\ude04", "\\ude05", "\\ude06", "\\ude07",
     "\\ude08", "\\ude09", "\\ude0a", "\\ude0b", "\\ude0c", "\\ude0d", "\\ude0e", "\\ude0f",
     "\\ude10", "\\ude11", "\\ude12", "\\ude13", "\\ude14", "\\ude15", "\\ude16", "\\ude17",
     "\\ude18", "\\ude19", "\\ude1a", "\\ude1b", "\\ude1c", "\\ude1d", "\\ude1e", "\\ude1f",
     "\\ude20", "\\ude21", "\\ude22", "\\ude23", "\\ude24", "\\ude25", "\\ude26", "\\ude27",
     "\\ude28", "\\ude29", "\\ude2a", "\\ude2b", "\\ude2c", "\\ude2d", "\\ude2e", "\\ude2f",
     "\\ude30", "\\ude31", "\\ude32", "\\ude33", "\\ude34", "\\ude35", "\\ude36", "\\ude37",
     "\\ude38", "\\ude39", "\\ude3a", "\\ude3b", "\\ude3c", "\\ude3d", "\\ude3e", "\\ude3f",
     "\\ude40", "\\ude41", "\\ude42", "\\ude43", "\\ude44", "\\ude45", "\\ude46", "\\ude47",
     "\\ude48", "\\ude49", "\\ude4a", "\\ude4b", "\\ude4c", "\\ude4d", "\\ude4e", "\\ude4f",
     "\\ude50", "\\ude51", "\\ude52", "\\ude53", "\\ude54", "\\ude55", "\\ude56", "\\ude57",
     "\\ude58", "\\ude59", "\\ude5a", "\\ude5b", "\\ude5c", "\\ude5d", "\\ude5e", "\\ude5f",
     "\\ude60", "\\ude61", "\\ude62", "\\ude63", "\\ude64", "\\ude65", "\\ude66", "\\ude67",
     "\\ude68", "\\ude69", "\\ude6a", "\\ude6b", "\\ude6c", "\\ude6d", "\\ude6e", "\\ude6f",
     "\\ude70", "\\ude71", "\\ude72", "\\ude73", "\\ude74", "\\ude75", "\\ude76", "\\ude77",
     "\\ude78", "\\ude79", "\\ude7a", "\\ude7b", "\\ude7c", "\\ude7d", "\\ude7e", "\\ude7f",
     "\\ude80", "\\ude81", "\\ude82", "\\ude83", "\\ude84", "\\ude85", "\\ude86", "\\ude87",
     "\\ude88", "\\ude89", "\\ude8a", "\\ude8b", "\\ude8c", "\\ude8d", "\\ude8e", "\\ude8f",
     "\\ude90", "\\ude91", "\\ude92", "\\ude93", "\\ude94", "\\ude95", "\\ude96", "\\ude97",
     "\\ude98", "\\ude99", "\\ude9a", "\\ude9b", "\\ude9c", "\\ude9d", "\\ude9e", "\\ude9f",
     "\\udea0", "\\udea1", "\\udea2", "\\udea3", "\\udea4", "\\udea5", "\\udea6", "\\udea7",
     "\\udea8", "\\udea9", "\\udeaa", "\\udeab", "\\udeac", "\\udead", "\\udeae", "\\udeaf",
     "\\udeb0", "\\udeb1", "\\udeb2", "\\udeb3", "\\udeb4", "\\udeb5", "\\udeb6", "\\udeb7",
     "\\udeb8", "\\udeb9", "\\udeba", "\\udebb", "\\udebc", "\\udebd", "\\udebe", "\\udebf",
     "\\udec0", "\\udec1", "\\udec2", "\\udec3", "\\udec4", "\\udec5", "\\udec6", "\\udec7",
     "\\udec8", "\\udec9", "\\udeca", "\\udecb", "\\udecc", "\\udecd", "\\udece", "\\udecf",
     "\\uded0", "\\uded1", "\\uded2", "\\uded3", "\\uded4", "\\uded5", "\\uded6", "\\uded7",
     "\\uded8", "\\uded9", "\\udeda", "\\udedb", "\\udedc", "\\udedd", "\\udede", "\\udedf",
     "\\udee0", "\\udee1", "\\udee2", "\\udee3", "\\udee4", "\\udee5", "\\udee6", "\\udee7",
     "\\udee8", "\\udee9", "\\udeea", "\\udeeb", "\\udeec", "\\udeed", "\\udeee", "\\udeef",
     "\\udef0", "\\udef1", "\\udef2", "\\udef3", "\\udef4", "\\udef5", "\\udef6", "\\udef7",
     "\\udef8", "\\udef9", "\\udefa", "\\udefb", "\\udefc", "\\udefd", "\\udefe", "\\udeff",
     "\\udf00", "\\udf01", "\\udf02", "\\udf03", "\\udf04", "\\udf05", "\\udf06", "\\udf07",
     "\\udf08", "\\udf09", "\\udf0a", "\\udf0b", "\\udf0c", "\\udf0d", "\\udf0e", "\\udf0f",
     "\\udf10", "\\udf11", "\\udf12", "\\udf13", "\\udf14", "\\udf15", "\\udf16", "\\udf17",
     "\\udf18", "\\udf19", "\\udf1a", "\\udf1b", "\\udf1c", "\\udf1d", "\\udf1e", "\\udf1f",
     "\\udf20", "\\udf21", "\\udf22", "\\udf23", "\\udf24", "\\udf25", "\\udf26", "\\udf27",
     "\\udf28", "\\udf29", "\\udf2a", "\\udf2b", "\\udf2c", "\\udf2d", "\\udf2e", "\\udf2f",
     "\\udf30", "\\udf31", "\\udf32", "\\udf33", "\\udf34", "\\udf35", "\\udf36", "\\udf37",
     "\\udf38", "\\udf39", "\\udf3a", "\\udf3b", "\\udf3c", "\\udf3d", "\\udf3e", "\\udf3f",
     "\\udf40", "\\udf41", "\\udf42", "\\udf43", "\\udf44", "\\udf45", "\\udf46", "\\udf47",
     "\\udf48", "\\udf49", "\\udf4a", "\\udf4b", "\\udf4c", "\\udf4d", "\\udf4e", "\\udf4f",
     "\\udf50", "\\udf51", "\\udf52", "\\udf53", "\\udf54", "\\udf55", "\\udf56", "\\udf57",
     "\\udf58", "\\udf59", "\\udf5a", "\\udf5b", "\\udf5c", "\\udf5d", "\\udf5e", "\\udf5f",
     "\\udf60", "\\udf61", "\\udf62", "\\udf63", "\\udf64", "\\udf65", "\\udf66", "\\udf67",
     "\\udf68", "\\udf69", "\\udf6a", "\\udf6b", "\\udf6c", "\\udf6d", "\\udf6e", "\\udf6f",
     "\\udf70", "\\udf71", "\\udf72", "\\udf73", "\\udf74", "\\udf75", "\\udf76", "\\udf77",
     "\\udf78", "\\udf79", "\\udf7a", "\\udf7b", "\\udf7c", "\\udf7d", "\\udf7e", "\\udf7f",
     "\\udf80", "\\udf81", "\\udf82", "\\udf83", "\\udf84", "\\udf85", "\\udf86", "\\udf87",
     "\\udf88", "\\udf89", "\\udf8a", "\\udf8b", "\\udf8c", "\\udf8d", "\\udf8e", "\\udf8f",
     "\\udf90", "\\udf91", "\\udf92", "\\udf93", "\\udf94", "\\udf95", "\\udf96", "\\udf97",
     "\\udf98", "\\udf99", "\\udf9a", "\\udf9b", "\\udf9c", "\\udf9d", "\\udf9e", "\\udf9f",
     "\\udfa0", "\\udfa1", "\\udfa2", "\\udfa3", "\\udfa4", "\\udfa5", "\\udfa6", "\\udfa7",
     "\\udfa8", "\\udfa9", "\\udfaa", "\\udfab", "\\udfac", "\\udfad", "\\udfae", "\\udfaf",
     "\\udfb0", "\\udfb1", "\\udfb2", "\\udfb3", "\\udfb4", "\\udfb5", "\\udfb6", "\\udfb7",
     "\\udfb8", "\\udfb9", "\\udfba", "\\udfbb", "\\udfbc", "\\udfbd", "\\udfbe", "\\udfbf",
     "\\udfc0", "\\udfc1", "\\udfc2", "\\udfc3", "\\udfc4", "\\udfc5", "\\udfc6", "\\udfc7",
     "\\udfc8", "\\udfc9", "\\udfca", "\\udfcb", "\\udfcc", "\\udfcd", "\\udfce", "\\udfcf",
     "\\udfd0", "\\udfd1", "\\udfd2", "\\udfd3", "\\udfd4", "\\udfd5", "\\udfd6", "\\udfd7",
     "\\udfd8", "\\udfd9", "\\udfda", "\\udfdb", "\\udfdc", "\\udfdd", "\\udfde", "\\udfdf",
     "\\udfe0", "\\udfe1", "\\udfe2", "\\udfe3", "\\udfe4", "\\udfe5", "\\udfe6", "\\udfe7",
     "\\udfe8", "\\udfe9", "\\udfea", "\\udfeb", "\\udfec", "\\udfed", "\\udfee", "\\udfef",
     "\\udff0", "\\udff1", "\\udff2", "\\udff3", "\\udff4", "\\udff5", "\\udff6", "\\udff7",
     "\\udff8", "\\udff9", "\\udffa", "\\udffb", "\\udffc", "\\udffd", "\\udffe", "\\udfff"}

\* the lone surrogates U+DC80 to U+DCFF, which the error handler
\* surrogateescape writes as the bytes 0x80 to 0xFF
EscapedSurrogates ==
    {"\\udc80", "\\udc81", "\\udc82", "\\udc83", "\\udc84", "\\udc85", "\\udc86", "\\udc87",
     "\\udc88", "\\udc89", "\\udc8a", "\\udc8b", "\\udc8c", "\\udc8d", "\\udc8e", "\\udc8f",
     "\\udc90", "\\udc91", "\\udc92", "\\udc93", "\\udc94", "\\udc95", "\\udc96", "\\udc97",
     "\\udc98", "\\udc99", "\\udc9a", "\\udc9b", "\\udc9c", "\\udc9d", "\\udc9e", "\\udc9f",
     "\\udca0", "\\udca1", "\\udca2", "\\udca3", "\\udca4", "\\udca5", "\\udca6", "\\udca7",
     "\\udca8", "\\udca9", "\\udcaa", "\\udcab", "\\udcac", "\\udcad", "\\udcae", "\\udcaf",
     "\\udcb0", "\\udcb1", "\\udcb2", "\\udcb3", "\\udcb4", "\\udcb5", "\\udcb6", "\\udcb7",
     "\\udcb8", "\\udcb9", "\\udcba", "\\udcbb", "\\udcbc", "\\udcbd", "\\udcbe", "\\udcbf",
     "\\udcc0", "\\udcc1", "\\udcc2", "\\udcc3", "\\udcc4", "\\udcc5", "\\udcc6", "\\udcc7",
     "\\udcc8", "\\udcc9", "\\udcca", "\\udccb", "\\udccc", "\\udccd", "\\udcce", "\\udccf",
     "\\udcd0", "\\udcd1", "\\udcd2", "\\udcd3", "\\udcd4", "\\udcd5", "\\udcd6", "\\udcd7",
     "\\udcd8", "\\udcd9", "\\udcda", "\\udcdb", "\\udcdc", "\\udcdd", "\\udcde", "\\udcdf",
     "\\udce0", "\\udce1", "\\udce2", "\\udce3", "\\udce4", "\\udce5", "\\udce6", "\\udce7",
     "\\udce8", "\\udce9", "\\udcea", "\\udceb", "\\udcec", "\\udced", "\\udcee", "\\udcef",
     "\\udcf0", "\\udcf1", "\\udcf2", "\\udcf3", "\\udcf4", "\\udcf5", "\\udcf6", "\\udcf7",
     "\\udcf8", "\\udcf9", "\\udcfa", "\\udcfb", "\\udcfc", "\\udcfd", "\\udcfe", "\\udcff"}

\* the error handlers sys.stdout may have.  The scripts set none, so it is
\* the interpreter's: strict, or surrogateescape under the C and POSIX
\* locales and in UTF-8 mode
StdoutErrors == {"strict", "surrogateescape"}

\* text.encode('utf-8', errors) does not raise
Writable(text, errors) ==
    \A i \in 1..Len(text) :
        text[i] \in Surrogates =>
            (errors = "surrogateescape" /\ text[i] \in EscapedSurrogates)

\* str.encode('utf-8') does not raise
Encodable(text) == Writable(text, "strict")

\* print(f"...{value}...") of a text or None on a UTF-8 standard output with
\* the error handler does not raise UnicodeEncodeError
Printable(value, errors) == value = None \/ Writable(value, errors)

\* the decimal digits of other scripts, which int() and float() read like
\* 0-9: the digits of value v are OtherDecimals[v + 1]
OtherDecimals ==
    <<
     {"\\u0660", "\\u06f0", "\\u07c0", "\\u0966", "\\u09e6", "\\u0a66",
      "\\u0ae6", "\\u0b66", "\\u0be6", "\\u0c66", "\\u0ce6", "\\u0d66",
      "\\u0de6", "\\u0e50", "\\u0ed0", "\\u0f20", "\\u1040", "\\u1090",
      "\\u17e0", "\\u1810", "\\u1946", "\\u19d0", "\\u1a80", "\\u1a90",
      "\\u1b50", "\\u1bb0", "\\u1c40", "\\u1c50", "\\ua620", "\\ua8d0",
      "\\ua900", "\\ua9d0", "\\ua9f0", "\\uaa50", "\\uabf0", "\\uff10",
      "\\U000104a0", "\\U00010d30", "\\U00011066", "\\U000110f0",
      "\\U00011136", "\\U000111d0", "\\U000112f0", "\\U00011450",
      "\\U000114d0", "\\U00011650", "\\U000116c0", "\\U00011730",
      "\\U000118e0", "\\U00011950", "\\U00011c50", "\\U00011d50",
      "\\U00011da0", "\\U00016a60", "\\U00016ac0", "\\U00016b50",
      "\\U0001d7ce", "\\U0001d7d8", "\\U0001d7e2", "\\U0001d7ec",
      "\\U0001d7f6", "\\U0001e140", "\\U0001e2f0", "\\U0001e950",
      "\\U0001fbf0"},
     {"\\u0661", "\\u06f1", "\\u07c1", "\\u0967", "\\u09e7", "\\u0a67",
      "\\u0ae7", "\\u0b67", "\\u0be7", "\\u0c67", "\\u0ce7", "\\u0d67",
      "\\u0de7", "\\u0e51", "\\u0ed1", "\\u0f21", "\\u1041", "\\u1091",
      "\\u17e1", "\\u1811", "\\u1947", "\\u19d1", "\\u1a81", "\\u1a91",
      "\\u1b51", "\\u1bb1", "\\u1c41", "\\u1c51", "\\ua621", "\\ua8d1",
      "\\ua901", "\\ua9d1", "\\ua9f1", "\\uaa51", "\\uabf1", "\\uff11",
      "\\U000104a1", "\\U00010d31", "\\U00011067", "\\U000110f1",
      "\\U00011137", "\\U000111d1", "\\U000112f1", "\\U00011451",
      "\\U000114d1", "\\U00011651", "\\U000116c1", "\\U00011731",
      "\\U000118e1", "\\U00011951", "\\U00011c51", "\\U00011d51",
      "\\U00011da1", "\\U00016a61", "\\U00016ac1", "\\U00016b51",
      "\\U0001d7cf", "\\U0001d7d9", "\\U0001d7e3", "\\U0001d7ed",
      "\\U0001d7f7", "\\U0001e141", "\\U0001e2f1", "\\U0001e951",
      "\\U0001fbf1"},
     {"\\u0662", "\\u06f2", "\\u07c2", "\\u0968", "\\u09e8", "\\u0a68",
      "\\u0ae8", "\\u0b68", "\\u0be8", "\\u0c68", "\\u0ce8", "\\u0d68",
      "\\u0de8", "\\u0e52", "\\u0ed2", "\\u0f22", "\\u1042", "\\u1092",
      "\\u17e2", "\\u1812", "\\u1948", "\\u19d2", "\\u1a82", "\\u1a92",
      "\\u1b52", "\\u1bb2", "\\u1c42", "\\u1c52", "\\ua622", "\\ua8d2",
      "\\ua902", "\\ua9d2", "\\ua9f2", "\\uaa52", "\\uabf2", "\\uff12",
      "\\U000104a2", "\\U00010d32", "\\U00011068", "\\U000110f2",
      "\\U00011138", "\\U000111d2", "\\U000112f2", "\\U00011452",
      "\\U000114d2", "\\U00011652", "\\U000116c2", "\\U00011732",
      "\\U000118e2", "\\U00011952", "\\U00011c52", "\\U00011d52",
      "\\U00011da2", "\\U00016a62", "\\U00016ac2", "\\U00016b52",
      "\\U0001d7d0", "\\U0001d7da", "\\U0001d7e4", "\\U0001d7ee",
      "\\U0001d7f8", "\\U0001e142", "\\U0001e2f2", "\\U0001e952",
      "\\U0001fbf2"},
     {"\\u0663", "\\u06f3", "\\u07c3", "\\u0969", "\\u09e9", "\\u0a69",
      "\\u0ae9", "\\u0b69", "\\u0be9", "\\u0c69", "\\u0ce9", "\\u0d69",
      "\\u0de9", "\\u0e53", "\\u0ed3", "\\u0f23", "\\u1043", "\\u1093",
      "\\u17e3", "\\u1813", "\\u1949", "\\u19d3", "\\u1a83", "\\u1a93",
      "\\u1b53", "\\u1bb3", "\\u1c43", "\\u1c53", "\\ua623", "\\ua8d3",
      "\\ua903", "\\ua9d3", "\\ua9f3", "\\uaa53", "\\uabf3", "\\uff13",
      "\\U000104a3", "\\U00010d33", "\\U00011069", "\\U000110f3",
      "\\U00011139", "\\U000111d3", "\\U000112f3", "\\U00011453",
      "\\U000114d3", "\\U00011653", "\\U000116c3", "\\U00011733",
      "\\U000118e3", "\\U00011953", "\\U00011c53", "\\U00011d53",
      "\\U00011da3", "\\U00016a63", "\\U00016ac3", "\\U00016b53",
      "\\U0001d7d1", "\\U0001d7db", "\\U0001d7e5", "\\U0001d7ef",
      "\\U0001d7f9", "\\U0001e143", "\\U0001e2f3", "\\U0001e953",
      "\\U0001fbf3"},
     {"\\u0664", "\\u06f4", "\\u07c4", "\\u096a", "\\u09ea", "\\u0a6a",
      "\\u0aea", "\\u0b6a", "\\u0bea", "\\u0c6a", "\\u0cea", "\\u0d6a",
      "\\u0dea", "\\u0e54", "\\u0ed4", "\\u0f24", "\\u1044", "\\u1094",
      "\\u17e4", "\\u1814", "\\u194a", "\\u19d4", "\\u1a84", "\\u1a94",
      "\\u1b54", "\\u1bb4", "\\u1c44", "\\u1c54", "\\ua624", "\\ua8d4",
      "\\ua904", "\\ua9d4", "\\ua9f4", "\\uaa54", "\\uabf4", "\\uff14",
      "\\U000104a4", "\\U00010d34", "\\U0001106a", "\\U000110f4",
      "\\U0001113a", "\\U000111d4", "\\U000112f4", "\\U00011454",
      "\\U000114d4", "\\U00011654", "\\U000116c4", "\\U00011734",
      "\\U000118e4", "\\U00011954", "\\U00011c54", "\\U00011d54",
      "\\U00011da4", "\\U00016a64", "\\U00016ac4", "\\U00016b54",
      "\\U0001d7d2", "\\U0001d7dc", "\\U0001d7e6", "\\U0001d7f0",
      "\\U0001d7fa", "\\U0001e144", "\\U0001e2f4", "\\U0001e954",
      "\\U0001fbf4"},
     {"\\u0665", "\\u06f5", "\\u07c5", "\\u096b", "\\u09eb", "\\u0a6b",
      "\\u0aeb", "\\u0b6b", "\\u0beb", "\\u0c6b", "\\u0ceb", "\\u0d6b",
      "\\u0deb", "\\u0e55", "\\u0ed5", "\\u0f25", "\\u1045", "\\u1095",
      "\\u17e5", "\\u1815", "\\u194b", "\\u19d5", "\\u1a85", "\\u1a95",
      "\\u1b55", "\\u1bb5", "\\u1c45", "\\u1c55", "\\ua625", "\\ua8d5",
      "\\ua905", "\\ua9d5", "\\ua9f5", "\\uaa55", "\\uabf5", "\\uff15",
      "\\U000104a5", "\\U00010d35", "\\U0001106b", "\\U000110f5",
      "\\U0001113b", "\\U000111d5", "\\U000112f5", "\\U00011455",
      "\\U000114d5", "\\U00011655", "\\U000116c5", "\\U00011735",
      "\\U000118e5", "\\U00011955", "\\U00011c55", "\\U00011d55",
      "\\U00011da5", "\\U00016a65", "\\U00016ac5", "\\U00016b55",
      "\\U0001d7d3", "\\U0001d7dd", "\\U0001d7e7", "\\U0001d7f1",
      "\\U0001d7fb", "\\U0001e145", "\\U0001e2f5", "\\U0001e955",
      "\\U0001fbf5"},
     {"\\u0666", "\\u06f6", "\\u07c6", "\\u096c", "\\u09ec", "\\u0a6c",
      "\\u0aec", "\\u0b6c", "\\u0bec", "\\u0c6c", "\\u0cec", "\\u0d6c",
      "\\u0dec", "\\u0e56", "\\u0ed6", "\\u0f26", "\\u1046", "\\u1096",
      "\\u17e6", "\\u1816", "\\u194c", "\\u19d6", "\\u1a86", "\\u1a96",
      "\\u1b56", "\\u1bb6", "\\u1c46", "\\u1c56", "\\ua626", "\\ua8d6",
      "\\ua906", "\\ua9d6", "\\ua9f6", "\\uaa56", "\\uabf6", "\\uff16",
      "\\U000104a6", "\\U00010d36", "\\U0001106c", "\\U000110f6",
      "\\U0001113c", "\\U000111d6", "\\U000112f6", "\\U00011456",
      "\\U000114d6", "\\U00011656", "\\U000116c6", "\\U00011736",
      "\\U000118e6", "\\U00011956", "\\U00011c56", "\\U00011d56",
      "\\U00011da6", "\\U00016a66", "\\U00016ac6", "\\U00016b56",
      "\\U0001d7d4", "\\U0001d7de", "\\U0001d7e8", "\\U0001d7f2",
      "\\U0001d7fc", "\\U0001e146", "\\U0001e2f6", "\\U0001e956",
      "\\U0001fbf6"},
     {"\\u0667", "\\u06f7", "\\u07c7", "\\u096d", "\\u09ed", "\\u0a6d",
      "\\u0aed", "\\u0b6d", "\\u0bed", "\\u0c6d", "\\u0ced", "\\u0d6d",
      "\\u0ded", "\\u0e57", "\\u0ed7", "\\u0f27", "\\u1047", "\\u1097",
      "\\u17e7", "\\u1817", "\\u194d", "\\u19d7", "\\u1a87", "\\u1a97",
      "\\u1b57", "\\u1bb7", "\\u1c47", "\\u1c57", "\\ua627", "\\ua8d7",
      "\\ua907", "\\ua9d7", "\\ua9f7", "\\uaa57", "\\uabf7", "\\uff17",
      "\\U000104a7", "\\U00010d37", "\\U0001106d", "\\U000110f7",
      "\\U0001113d", "\\U000111d7", "\\U000112f7", "\\U00011457",
      "\\U000114d7", "\\U00011657", "\\U000116c7", "\\U00011737",
      "\\U000118e7", "\\U00011957", "\\U00011c57", "\\U00011d57",
      "\\U00011da7", "\\U00016a67", "\\U00016ac7", "\\U00016b57",
      "\\U0001d7d5", "\\U0001d7df", "\\U0001d7e9", "\\U0001d7f3",
      "\\U0001d7fd", "\\U0001e147", "\\U0001e2f7", "\\U0001e957",
      "\\U0001fbf7"},
     {"\\u0668", "\\u06f8", "\\u07c8", "\\u096e", "\\u09ee", "\\u0a6e",
      "\\u0aee", "\\u0b6e", "\\u0bee", "\\u0c6e", "\\u0cee", "\\u0d6e",
      "\\u0dee", "\\u0e58", "\\u0ed8", "\\u0f28", "\\u1048", "\\u1098",
      "\\u17e8", "\\u1818", "\\u194e", "\\u19d8", "\\u1a88", "\\u1a98",
      "\\u1b58", "\\u1bb8", "\\u1c48", "\\u1c58", "\\ua628", "\\ua8d8",
      "\\ua908", "\\ua9d8", "\\ua9f8", "\\uaa58", "\\uabf8", "\\uff18",
      "\\U000104a8", "\\U00010d38", "\\U0001106e", "\\U000110f8",
      "\\U0001113e", "\\U000111d8", "\\U000112f8", "\\U00011458",
      "\\U000114d8", "\\U00011658", "\\U000116c8", "\\U00011738",
      "\\U000118e8", "\\U00011958", "\\U00011c58", "\\U00011d58",
      "\\U00011da8", "\\U00016a68", "\\U00016ac8", "\\U00016b58",
      "\\U0001d7d6", "\\U0001d7e0", "\\U0001d7ea", "\\U0001d7f4",
      "\\U0001d7fe", "\\U0001e148", "\\U0001e2f8", "\\U0001e958",
      "\\U0001fbf8"},
     {"\\u0669", "\\u06f9", "\\u07c9", "\\u096f", "\\u09ef", "\\u0a6f",
      "\\u0aef", "\\u0b6f", "\\u0bef", "\\u0c6f", "\\u0cef", "\\u0d6f",
      "\\u0def", "\\u0e59", "\\u0ed9", "\\u0f29", "\\u1049", "\\u1099",
      "\\u17e9", "\\u1819", "\\u194f", "\\u19d9", "\\u1a89", "\\u1a99",
      "\\u1b59", "\\u1bb9", "\\u1c49", "\\u1c59", "\\ua629", "\\ua8d9",
      "\\ua909", "\\ua9d9", "\\ua9f9", "\\uaa59", "\\uabf9", "\\uff19",
      "\\U000104a9", "\\U00010d39", "\\U0001106f", "\\U000110f9",
      "\\U0001113f", "\\U000111d9", "\\U000112f9", "\\U00011459",
      "\\U000114d9", "\\U00011659", "\\U000116c9", "\\U00011739",
      "\\U000118e9", "\\U00011959", "\\U00011c59", "\\U00011d59",
      "\\U00011da9", "\\U00016a69", "\\U00016ac9", "\\U00016b59",
      "\\U0001d7d7", "\\U0001d7e1", "\\U0001d7eb", "\\U0001d7f5",
      "\\U0001d7ff", "\\U0001e149", "\\U0001e2f9", "\\U0001e959",
      "\\U0001fbf9"}
    >>

IsDecimal(c) == c \in Digits \/ \E v \in 1..10 : c \in OtherDecimals[v]

DecimalVal(c) ==
    IF c \in Digits THEN DigitVal(c)
    ELSE (CHOOSE v \in 1..10 : c \in OtherDecimals[v]) - 1

\* digits with single underscores between them, as int() and float() take
DigitRun(b) ==
    /\ b # <<>>
    /\ IsDecimal(b[1]) /\ IsDecimal(b[Len(b)])
    /\ \A i \in 1..Len(b) : IsDecimal(b[i]) \/ b[i] = "_"
    /\ \A i \in 1..(Len(b) - 1) : ~(b[i] = "_" /\ b[i + 1] = "_")

RECURSIVE DigitRunValue(_)
DigitRunValue(b) ==
    IF \A i \in 1..Len(b) : b[i] = "_" \/ DecimalVal(b[i]) = 0 THEN 0
    ELSE IF b[Len(b)] = "_" THEN DigitRunValue(SubSeq(b, 1, Len(b) - 1))
    ELSE 10 * DigitRunValue(SubSeq(b, 1, Len(b) - 1)) + DecimalVal(b[Len(b)])

Signs == {"+", "-"}

Unsigned(t) == IF t # <<>> /\ Head(t) \in Signs THEN Tail(t) ELSE t

SignOf(t) == IF t # <<>> /\ Head(t) = "-" THEN -1 ELSE 1

\* sys.get_int_max_str_digits() of Python 3.11: int() raises ValueError for a
\* text of more digits (underscores not counted, leading zeros counted)
int_max_str_digits == 4300

\* int(text) succeeds: white space, an optional sign, then a run of at most
\* int_max_str_digits digits
int_takes(u) ==
    /\ DigitRun(u)
    /\ Len(SelectSeq(u, LAMBDA c : c # "_")) <= int_max_str_digits
IsInt(tok) ==
    int_takes(Unsigned(RStripOf(LStripOf(tok, NumberWhitespace),
                                NumberWhitespace)))

\* int(text) of a text int() takes
ToInt(tok) ==
    LET t == RStripOf(LStripOf(tok, NumberWhitespace), NumberWhitespace)
    IN SignOf(t) * DigitRunValue(Unsigned(t))

\* str(n)
RECURSIVE IntToStr(_)
IntToStr(n) ==
    IF n < 0 THEN <<"-">> \o IntToStr(-n)
    ELSE IF n < 10 THEN <<DigitChar(n)>>
    ELSE Append(IntToStr(n \div 10), DigitChar(n % 10))

(***************************************************************************)
(* DayPattern parser                                                       *)
(***************************************************************************)
\* the stripped, non-empty pieces of a comma-separated text
StrippedTokens(s) ==
    LET pieces == SplitComma(s)
        stripped == [i \in 1..Len(pieces) |-> Strip(pieces[i])]
    IN SelectSeq(stripped, LAMBDA t : t # <<>>)

\* parse_days_string: one int() that raises makes the bare except return []
parse_days_string(s) ==
    IF s = None \/ s = <<>> THEN <<>>
    ELSE LET toks == StrippedTokens(s)
         IN IF \E i \in 1..Len(toks) : ~IsInt(toks[i]) THEN <<>>
            ELSE [i \in 1..Len(toks) |-> ToInt(toks[i])]

(***************************************************************************)
(* Template resolver: the body of the period loop of main()                *)
(***************************************************************************)
Last == <<"l", "a", "s", "t">>

MinOfSeq(q) == CHOOSE m \in {q[k] : k \in 1..Len(q)} :
                   \A k \in 1..Len(q) : m <= q[k]

MinNat(a, b) == IF a <= b THEN a ELSE b

\* the least of a non-empty set of integers
SetMin(set) == CHOOSE m \in set : \A n \in set : m <= n

\* a loop over the start days alone
period_count_of_starts(sd, ed) == Len(sd)

\* line 389: period_count = min(len(start_days), len(end_days))
period_count(sd, ed) == MinNat(Len(sd), Len(ed))

\* an end day that may be None is a sequence of at most one integer; the
\* None of line 427 (`end_day = end_days[0] if end_days else None`) is the
\* empty one, so that no day the parser can return stands for it
NoEndDay == <<>>

\* the end day at the same index, whatever the start day
resolve_end_day_direct(sd, ed, idx) == <<ed[idx + 1]>>

\* lines 392-427: the end day paired with start_days[idx] (idx is 0-based)
resolve_end_day(sd, ed, idx) ==
    LET start_day == sd[idx + 1]
    IN IF idx < Len(ed)
       THEN IF ed[idx + 1] >= start_day
            THEN <<ed[idx + 1]>>
            ELSE LET found == {j \in 1..Len(ed) : ed[j] >= start_day}
                 IN IF found # {}
                    THEN <<ed[CHOOSE j \in found : \A k \in found : j <= k]>>
                    ELSE <<MinOfSeq(ed)>>
       ELSE IF ed # <<>> THEN <<ed[1]>> ELSE NoEndDay

\* lines 441-444 and 449-452: 1 is the last day of the month
payout_text(day_value) == IF day_value = 1 THEN Last ELSE IntToStr(day_value)

\* the payout day at the same index, without the reversal
resolve_payout_day_direct(pd, idx) ==
    IF idx < Len(pd) THEN payout_text(pd[idx + 1]) ELSE None

\* lines 435-452: the payout day read from payout_days, or None
resolve_payout_day(pd, idx) ==
    IF pd = <<>> THEN None
    ELSE LET reverse_index == Len(pd) - 1 - idx
             from_reverse == IF reverse_index >= 0 /\ reverse_index < Len(pd)
                             THEN payout_text(pd[reverse_index + 1])
                             ELSE None
         IN IF from_reverse = None /\ idx < Len(pd)
            THEN payout_text(pd[idx + 1])
            ELSE from_reverse

\* every period paid in the month it ends in
no_payout_month_offset(start_day, end_day) == 0

\* lines 458-465
payout_month_offset_for(start_day, end_day) ==
    IF end_day < start_day THEN 1 ELSE 0

\* the last day of the month as the default of every period
default_payout_day_last(start_day, end_day) == Last

\* lines 476-484: the default payout day of a period none was read for
default_payout_day(start_day, end_day) ==
    IF end_day < start_day THEN <<"1", "5">> ELSE Last

default_payout_offset(start_day, end_day) ==
    IF end_day < start_day THEN 1 ELSE 0

\* lines 391-500: the record_data of period idx of department dept_id, for
\* a period whose end day is not None
record_data_for(dept_id, sd, ed, pd, idx) ==
    LET start_day == sd[idx + 1]
        end_day == resolve_end_day(sd, ed, idx)[1]
        payout_day == resolve_payout_day(pd, idx)
    IN [department_id |-> <<dept_id>>,
        period_number |-> idx + 1,
        start_day |-> start_day,
        end_day |-> end_day,
        payout_day |-> IF payout_day = None
                       THEN default_payout_day(start_day, end_day)
                       ELSE payout_day,
        payout_month_offset |-> IF payout_day = None
                                THEN default_payout_offset(start_day, end_day)
                                ELSE payout_month_offset_for(start_day, end_day),
        is_active |-> TRUE]

\* `not x` of a text field that may be absent
Falsy(text) == text = None \/ text = <<>>

\* lines 374-376
missing_days(sd, ed) == sd = <<>> \/ ed = <<>>

\* a template as a listing of the templates table returns it: the linked
\* department comes as a list or as a bare id, as the store chooses
Listed(rec, as_list) ==
    [fields |-> [department_id |->
                     [is_list |-> as_list,
                      value |-> IF as_list THEN rec.department_id
                                ELSE rec.department_id[1]],
                 period_number |-> rec.period_number]]

\* lines 328-335: the listed templates grouped by department
RECURSIVE group_existing(_, _)
group_existing(existing_templates, acc) ==
    IF existing_templates = <<>> THEN acc
    ELSE LET template == Head(existing_templates)
             dept_id_field == template.fields.department_id
             rest == Tail(existing_templates)
         IN IF dept_id_field.is_list /\ dept_id_field.value # <<>>
            THEN LET dept_id == dept_id_field.value[1]
                 IN group_existing(rest,
                        IF dept_id \in DOMAIN acc
                        THEN [acc EXCEPT ![dept_id] = Append(@, template)]
                        ELSE acc @@ (dept_id :> <<template>>))
            ELSE group_existing(rest, acc)

(***************************************************************************)
(* Period instantiator, as spec.md 4.3 describes it.  A date is            *)
(* <<year, month, day>>.                                                   *)
(***************************************************************************)
is_leap(y) == (y % 4 = 0 /\ y % 100 # 0) \/ y % 400 = 0

\* every month counted as 30 days
thirty_day_month(y, m) == 30

\* February never lengthened
last_day_ignoring_leap(y, m) ==
    CASE m \in {4, 6, 9, 11} -> 30
      [] m = 2 -> 28
      [] OTHER -> 31

\* the month's actual last day
last_day_of_month(y, m) ==
    CASE m \in {1, 3, 5, 7, 8, 10, 12} -> 31
      [] m \in {4, 6, 9, 11} -> 30
      [] m = 2 -> IF is_leap(y) THEN 29 ELSE 28

\* the month k months after <<y, m>>; past December the year rolls forward
add_months(y, m, k) ==
    LET n == (m - 1) + k
    IN <<y + (n \div 12), (n % 12) + 1>>

Clamp(day, y, m) ==
    IF day > last_day_of_month(y, m) THEN last_day_of_month(y, m) ELSE day

\* startDate: the anchor month's startDay-th day
start_date_of(t, y, m) == <<y, m, t.start_day>>

\* the end day taken as it is, whatever the month's length
end_date_unclamped(t, y, m) ==
    LET em == IF t.end_day >= t.start_day THEN <<y, m>> ELSE add_months(y, m, 1)
    IN <<em[1], em[2], t.end_day>>

\* endDate: the same month when endDay >= startDay, else the following
\* month; clamped to that month's last day
end_date_of(t, y, m) ==
    LET em == IF t.end_day >= t.start_day THEN <<y, m>> ELSE add_months(y, m, 1)
    IN <<em[1], em[2], Clamp(t.end_day, em[1], em[2])>>

\* payoutDate: endDate's month + payoutMonthOffset; the month's last day
\* for "last", else the literal day number, clamped
payout_date_of(t, end_date) ==
    LET pm == add_months(end_date[1], end_date[2], t.payout_month_offset)
    IN <<pm[1], pm[2],
         IF t.payout_day = Last THEN last_day_of_month(pm[1], pm[2])
         ELSE Clamp(ToInt(t.payout_day), pm[1], pm[2])>>

instantiate(t, y, m) ==
    LET end_date == end_date_of(t, y, m)
    IN [start_date |-> start_date_of(t, y, m),
        end_date |-> end_date,
        payout_date |-> payout_date_of(t, end_date)]

(***************************************************************************)
(* Relevance classifier: debug_pay_periods.py.  A datetime is              *)
(* <<year, month, day, hour, minute, second>>.                             *)
(***************************************************************************)
\* the calendar of Python's datetime
DaysIn(y, m) ==
    IF m = 2 THEN (IF (y % 4 = 0 /\ y % 100 # 0) \/ y % 400 = 0 THEN 29 ELSE 28)
    ELSE IF m \in {4, 6, 9, 11} THEN 30 ELSE 31

\* datetime(y, m, d) does not raise
ValidYMD(y, m, d) ==
    /\ y >= 1 /\ y <= 9999
    /\ m >= 1 /\ m <= 12
    /\ d >= 1 /\ d <= DaysIn(y, m)

\* a < b for tuples of integers of one length, compared left to right
RECURSIVE TupleLess(_, _)
TupleLess(a, b) ==
    IF a = <<>> THEN FALSE
    ELSE IF Head(a) # Head(b) THEN Head(a) < Head(b)
    ELSE TupleLess(Tail(a), Tail(b))

TupleLeq(a, b) == a = b \/ TupleLess(a, b)

\* datetime.min
DatetimeMin == <<1, 1, 1, 0, 0, 0>>

\* an exception that nothing catches
UnicodeEncodeError == <<"UnicodeEncodeError">>

\* lines 68-70: the handler prints the text, which raises when stdout
\* cannot write it, and None is returned
parse_date_reported(date_str, errors) ==
    IF Printable(date_str, errors) THEN None ELSE UnicodeEncodeError

\* parse_date, lines 58-70: the text before a 'T' is split at '-', and a
\* text that does not give a date is reported and gives None
parse_date(date_str, errors) ==
    IF Falsy(date_str) THEN None
    ELSE IF Len(date_str) < 10 THEN None
    ELSE LET date_part == Split(date_str, "T")[1]
             parts == Split(date_part, "-")
         IN IF Len(parts) # 3 \/ \E k \in 1..Len(parts) : ~IsInt(parts[k])
            THEN parse_date_reported(date_str, errors)
            ELSE LET y == ToInt(parts[1])
                     m == ToInt(parts[2])
                     d == ToInt(parts[3])
                 IN IF ValidYMD(y, m, d) THEN <<y, m, d, 0, 0, 0>>
                    ELSE parse_date_reported(date_str, errors)

\* the three datetimes compared as main() holds them, without normalising
determine_relevance_raw(start_date, end_date, now) ==
    IF start_date = None \/ end_date = None THEN "unknown"
    ELSE IF TupleLeq(start_date, now) /\ TupleLeq(now, end_date)
         THEN "current"
         ELSE IF TupleLess(now, start_date) THEN "upcoming" ELSE "past"

\* `or` in the place of `and`
determine_relevance_or(start_date, end_date, now) ==
    IF start_date = None \/ end_date = None THEN "unknown"
    ELSE LET start == <<start_date[1], start_date[2], start_date[3], 0, 0, 0>>
             end == <<end_date[1], end_date[2], end_date[3], 23, 59, 59>>
             today_normalized == <<now[1], now[2], now[3], 0, 0, 0>>
         IN IF TupleLeq(start, today_normalized)
                  \/ TupleLeq(today_normalized, end)
            THEN "current"
            ELSE IF TupleLess(today_normalized, start) THEN "upcoming"
            ELSE "past"

\* determine_relevance, lines 72-87
determine_relevance(start_date, end_date, now) ==
    IF start_date = None \/ end_date = None THEN "unknown"
    ELSE LET start == <<start_date[1], start_date[2], start_date[3], 0, 0, 0>>
             end == <<end_date[1], end_date[2], end_date[3], 23, 59, 59>>
             today_normalized == <<now[1], now[2], now[3], 0, 0, 0>>
         IN IF TupleLeq(start, today_normalized)
                  /\ TupleLeq(today_normalized, end)
            THEN "current"
            ELSE IF TupleLess(today_normalized, start) THEN "upcoming"
            ELSE "past"

\* whether parse_date raises at line 124 or 125
analyse_raises(record, errors) ==
    \/ parse_date(record.fields.start_date, errors) = UnicodeEncodeError
    \/ parse_date(record.fields.end_date, errors) = UnicodeEncodeError

\* lines 118-138: one record of the listing, analysed; UnicodeEncodeError
\* when parse_date raises it
analyse(record, now, errors) ==
    LET start_date == parse_date(record.fields.start_date, errors)
        end_date == parse_date(record.fields.end_date, errors)
    IN IF analyse_raises(record, errors) THEN UnicodeEncodeError
       ELSE [id |-> record.id,
             start_date_str |-> record.fields.start_date,
             end_date_str |-> record.fields.end_date,
             start_date |-> start_date,
             end_date |-> end_date,
             department_id |-> record.fields.department_id,
             relevance |-> IF start_date # None /\ end_date # None
                           THEN determine_relevance(start_date, end_date, now)
                           ELSE "unknown"]

\* the key of the sort of line 141
start_key(pp) == IF pp.start_date # None THEN pp.start_date ELSE DatetimeMin

\* list.sort(key=..., reverse=True): descending, equal keys keep their order
RECURSIVE insert_desc(_, _)
insert_desc(sorted, pp) ==
    IF sorted = <<>> THEN <<pp>>
    ELSE IF TupleLess(start_key(Head(sorted)), start_key(pp))
         THEN <<pp>> \o sorted
         ELSE <<Head(sorted)>> \o insert_desc(Tail(sorted), pp)

RECURSIVE sort_newest_first(_)
sort_newest_first(pps) ==
    IF pps = <<>> THEN <<>>
    ELSE insert_desc(sort_newest_first(SubSeq(pps, 1, Len(pps) - 1)),
                     pps[Len(pps)])

WithRelevance(pps, label) == SelectSeq(pps, LAMBDA pp : pp.relevance = label)

(***************************************************************************)
(* Punch aggregation: values.  A number of hours is held as the timedelta  *)
(* that long, to the microsecond, so that sums and the rounding to         *)
(* hundredths of an hour are computed.  A field of a punch that links      *)
(* records is [kind, ids]: kind "absent" (None), "scalar" (one id,         *)
(* ids = <<id>>) or "list" (ids = the list).  A duration is                *)
(* [kind, span, text]: "none", "num" (a JSON number) or "str".             *)
(***************************************************************************)
\* text.replace('Z', '+00:00')
RECURSIVE ReplaceZ(_)
ReplaceZ(s) ==
    IF s = <<>> THEN <<>>
    ELSE IF Head(s) = "Z" THEN <<"+", "0", "0", ":", "0", "0">> \o ReplaceZ(Tail(s))
    ELSE <<Head(s)>> \o ReplaceZ(Tail(s))

\* timedelta(days, seconds, microseconds), normalised as Python normalises
\* it: 0 <= seconds < 86400 and 0 <= microseconds < 1000000
Td(days, seconds, microseconds) ==
    LET s == seconds + microseconds \div 1000000
    IN [days |-> days + s \div 86400,
        seconds |-> s % 86400,
        microseconds |-> microseconds % 1000000]

TdZero == Td(0, 0, 0)
TdAdd(a, b) ==
    Td(a.days + b.days, a.seconds + b.seconds, a.microseconds + b.microseconds)
TdSub(a, b) ==
    Td(a.days - b.days, a.seconds - b.seconds, a.microseconds - b.microseconds)
TdNeg(a) == TdSub(TdZero, a)
\* a < b
TdLess(a, b) ==
    \/ a.days < b.days
    \/ a.days = b.days /\ a.seconds < b.seconds
    \/ a.days = b.days /\ a.seconds = b.seconds /\ a.microseconds < b.microseconds
TdMax(a, b) == IF TdLess(a, b) THEN b ELSE a
TdMin(a, b) == IF TdLess(b, a) THEN b ELSE a

\* a number of hours is held as the timedelta that long: x hours are
\* x * timedelta(hours=1), so that `total_seconds() / 3600` of a timedelta is
\* the timedelta itself
Hours(n) == Td(n \div 24, (n % 24) * 3600, 0)
\* n hundredths of an hour
HundredthsOfHour(n) == Td(n \div 2400, (n % 2400) * 36, 0)

\* days of year y before month m
RECURSIVE days_before_month(_, _)
days_before_month(y, m) ==
    IF m <= 1 THEN 0 ELSE days_before_month(y, m - 1) + DaysIn(y, m - 1)

\* days before 1 January of year y
days_before_year(y) ==
    (y - 1) * 365 + (y - 1) \div 4 - (y - 1) \div 100 + (y - 1) \div 400

\* date.toordinal: 1 for 0001-01-01
ymd_to_ord(y, m, d) == days_before_year(y) + days_before_month(y, m) + d
MaxOrdinal == ymd_to_ord(9999, 12, 31)

\* 0 for Monday
weekday(y, m, d) == (ymd_to_ord(y, m, d) + 6) % 7

\* the ordinal of the Monday of ISO week 1 of the year
iso_week1_monday(y) ==
    LET first_day == ymd_to_ord(y, 1, 1)
        first_weekday == (first_day + 6) % 7
        week1_monday == first_day - first_weekday
    IN IF first_weekday > 3 THEN week1_monday + 7 ELSE week1_monday

\* the ordinal of an ISO week date, <<>> when the week or the day is out of
\* range
iso_to_ord(iso_year, iso_week, iso_day) ==
    LET first_weekday == weekday(iso_year, 1, 1)
        week_ok == \/ iso_week >= 1 /\ iso_week <= 52
                   \/ /\ iso_week = 53
                      /\ \/ first_weekday = 3
                         \/ first_weekday = 2 /\ is_leap(iso_year)
    IN IF ~week_ok \/ iso_day < 1 \/ iso_day > 7 THEN <<>>
       ELSE <<iso_week1_monday(iso_year) + (iso_week - 1) * 7 + iso_day - 1>>

\* the characters of one byte in UTF-8
Ascii ==
    {"\\x00", "\\x01", "\\x02", "\\x03", "\\x04", "\\x05", "\\x06", "\\x07",
     "\\x08", "\t", "\n", "\\x0b", "\f", "\r", "\\x0e", "\\x0f", "\\x10",
     "\\x11", "\\x12", "\\x13", "\\x14", "\\x15", "\\x16", "\\x17", "\\x18",
     "\\x19", "\\x1a", "\\x1b", "\\x1c", "\\x1d", "\\x1e", "\\x1f", " ", "!",
     "\"", "#", "$", "%", "&", "'", "(", ")", "*", "+", ",", "-", ".", "/",
     "0", "1", "2", "3", "4", "5", "6", "7", "8", "9", ":", ";", "<", "=",
     ">", "?", "@", "A", "B", "C", "D", "E", "F", "G", "H", "I", "J", "K",
     "L", "M", "N", "O", "P", "Q", "R", "S", "T", "U", "V", "W", "X", "Y",
     "Z", "[", "\\", "]", "^", "_", "\\x60", "a", "b", "c", "d", "e", "f", "g",
     "h", "i", "j", "k", "l", "m", "n", "o", "p", "q", "r", "s", "t", "u",
     "v", "w", "x", "y", "z", "{", "|", "}", "~", "\\x7f"}

\* the terminator the C parser reads past the end of the text, and a byte of
\* a character of more than one byte
NUL == "\\x00"
HighByte == "\\x80"

\* the UTF-8 bytes the C parser of datetime.fromisoformat reads: a character
\* of more than one byte is given as two bytes, none of them a digit or a
\* mark of the format
RECURSIVE Utf8(_)
Utf8(s) ==
    IF s = <<>> THEN <<>>
    ELSE (IF Head(s) \in Ascii THEN <<Head(s)>> ELSE <<HighByte, HighByte>>)
             \o Utf8(Tail(s))

\* the byte at offset p, counted from 0
CharAt(b, p) == IF p >= 0 /\ p < Len(b) THEN b[p + 1] ELSE NUL

\* parse_digits: n ASCII digits at offset p, and their value
HasDigits(b, p, n) == \A k \in 0..(n - 1) : CharAt(b, p + k) \in Digits
RECURSIVE DigitsAt(_, _, _)
DigitsAt(b, p, n) ==
    IF n = 0 THEN 0
    ELSE 10 * DigitsAt(b, p, n - 1) + DigitVal(CharAt(b, p + n - 1))

\* _find_isoformat_datetime_separator: where the date part ends
RECURSIVE digits_end(_, _)
digits_end(b, idx) ==
    IF idx < Len(b) /\ CharAt(b, idx) \in Digits THEN digits_end(b, idx + 1)
    ELSE idx
find_isoformat_datetime_separator(b) ==
    LET len == Len(b)
    IN IF len = 7 THEN 7
       ELSE IF CharAt(b, 4) = "-"
       THEN IF CharAt(b, 5) = "W"
            THEN IF len < 8 THEN -1
                 ELSE IF len > 8 /\ CharAt(b, 8) = "-"
                 THEN IF len = 9 THEN -1
                      ELSE IF len > 10 /\ CharAt(b, 10) \in Digits THEN 8
                      ELSE 10
                 ELSE 8
            ELSE 10
       ELSE IF CharAt(b, 4) = "W"
       THEN LET idx == digits_end(b, 7)
            IN IF idx < 9 THEN idx ELSE IF idx % 2 = 0 THEN 7 ELSE 8
       ELSE 8

\* parse_isoformat_date over the first len bytes, and the range check of the
\* date: <<ordinal>>, or <<>> when the text is refused
parse_isoformat_date(b, len) ==
    IF ~HasDigits(b, 0, 4) THEN <<>>
    ELSE LET year == DigitsAt(b, 0, 4)
             uses_separator == CharAt(b, 4) = "-"
             p == IF uses_separator THEN 5 ELSE 4
         IN IF CharAt(b, p) = "W"
            THEN IF ~HasDigits(b, p + 1, 2) THEN <<>>
                 ELSE LET iso_week == DigitsAt(b, p + 1, 2)
                          q == p + 3
                          r == IF uses_separator THEN q + 1 ELSE q
                      IN IF q < len
                         THEN IF uses_separator /\ CharAt(b, q) # "-" THEN <<>>
                              ELSE IF ~HasDigits(b, r, 1) THEN <<>>
                              ELSE iso_to_ord(year, iso_week, DigitsAt(b, r, 1))
                         ELSE iso_to_ord(year, iso_week, 1)
            ELSE IF ~HasDigits(b, p, 2) THEN <<>>
            ELSE LET month == DigitsAt(b, p, 2)
                     q == IF uses_separator THEN p + 3 ELSE p + 2
                 IN IF uses_separator /\ CharAt(b, p + 2) # "-" THEN <<>>
                    ELSE IF ~HasDigits(b, q, 2) THEN <<>>
                    ELSE IF ~ValidYMD(year, month, DigitsAt(b, q, 2)) THEN <<>>
                    ELSE <<ymd_to_ord(year, month, DigitsAt(b, q, 2))>>

\* what parse_hh_mm_ss_ff gives: refused, or the fields read, with `more`
\* telling that bytes follow them (the return value 1)
TimeRefused == [ok |-> FALSE, more |-> FALSE, vals |-> <<>>, microsecond |-> 0]
TimeRead(vals, microsecond, more) ==
    [ok |-> TRUE, more |-> more, vals |-> vals, microsecond |-> microsecond]

\* the fraction of parse_hh_mm_ss_ff: at most six digits are read, further
\* digits are skipped
fraction_correction == <<100000, 10000, 1000, 100, 10, 1>>
parse_fraction(b, p, p_end, vals) ==
    LET len_remains == p_end - p
        to_parse == IF len_remains >= 6 THEN 6 ELSE len_remains
    IN IF to_parse < 1 \/ ~HasDigits(b, p, to_parse) THEN TimeRefused
       ELSE TimeRead(vals,
                     DigitsAt(b, p, to_parse) * fraction_correction[to_parse],
                     CharAt(b, digits_end(b, p + to_parse)) # NUL)

\* the loop of parse_hh_mm_ss_ff over hour, minute and second: i fields are
\* read, the next one starts at p
RECURSIVE parse_hh_mm_ss_ff_from(_, _, _, _, _, _)
parse_hh_mm_ss_ff_from(b, p, p_end, i, has_separator, vals) ==
    IF i = 3 THEN parse_fraction(b, p, p_end, vals)
    ELSE IF ~HasDigits(b, p, 2) THEN TimeRefused
    ELSE LET c == CharAt(b, p + 2)
             after == p + 3
             separated == IF i = 0 THEN c = ":" ELSE has_separator
             read == Append(vals, DigitsAt(b, p, 2))
         IN IF after >= p_end THEN TimeRead(read, 0, c # NUL)
            ELSE IF separated /\ c = ":"
            THEN parse_hh_mm_ss_ff_from(b, after, p_end, i + 1, separated, read)
            ELSE IF c \in {".", ","} THEN parse_fraction(b, after, p_end, read)
            ELSE IF ~separated
            THEN parse_hh_mm_ss_ff_from(b, after - 1, p_end, i + 1, separated, read)
            ELSE TimeRefused

parse_hh_mm_ss_ff(b, p, p_end) == parse_hh_mm_ss_ff_from(b, p, p_end, 0, TRUE, <<>>)

\* the field of a time that was read, 0 when the text ended before it
FieldOf(time, i) == IF i <= Len(time.vals) THEN time.vals[i] ELSE 0
SecondsOf(time) == FieldOf(time, 1) * 3600 + FieldOf(time, 2) * 60 + FieldOf(time, 3)

\* the first Z, + or - of the bytes from offset p on, the end when there is
\* none
RECURSIVE tzinfo_position(_, _)
tzinfo_position(b, p) ==
    IF p >= Len(b) THEN Len(b)
    ELSE IF CharAt(b, p) \in {"Z", "+", "-"} THEN p
    ELSE tzinfo_position(b, p + 1)

\* the end of parse_isoformat_time, and the range checks of the time and of
\* the zone: the fields before the zone mark at tzinfo_pos are `time`, those
\* behind it are `zone`.  [ok, aware, time, tz], time and tz being
\* timedeltas
IsoTimeRefused == [ok |-> FALSE, aware |-> FALSE, time |-> TdZero, tz |-> TdZero]
IsoTime(aware, time, tz) ==
    [ok |-> TRUE, aware |-> aware,
     time |-> Td(0, SecondsOf(time), time.microsecond), tz |-> tz]
ZoneOf(tzsign, zone) ==
    IF SecondsOf(zone) = 0 THEN TdZero
    ELSE Td(0, tzsign * SecondsOf(zone), tzsign * zone.microsecond)
zoned_time(time, tz) ==
    IF TdLess(Td(-1, 0, 0), tz) /\ TdLess(tz, Td(1, 0, 0))
    THEN IsoTime(TRUE, time, tz) ELSE IsoTimeRefused
time_and_zone(mark, behind_mark, at_end, time, zone) ==
    IF ~time.ok THEN IsoTimeRefused
    ELSE IF FieldOf(time, 1) > 23 \/ FieldOf(time, 2) > 59 \/ FieldOf(time, 3) > 59
    THEN IsoTimeRefused
    ELSE IF at_end
    THEN IF time.more THEN IsoTimeRefused ELSE IsoTime(FALSE, time, TdZero)
    ELSE IF mark = "Z"
    THEN IF behind_mark # NUL THEN IsoTimeRefused ELSE IsoTime(TRUE, time, TdZero)
    ELSE IF ~zone.ok \/ zone.more THEN IsoTimeRefused
    ELSE zoned_time(time, ZoneOf(IF mark = "-" THEN -1 ELSE 1, zone))

\* parse_isoformat_time of the bytes from offset p on, which are not empty,
\* the zone mark being at tzinfo_pos
parse_isoformat_time_at(b, p, tzinfo_pos) ==
    time_and_zone(CharAt(b, tzinfo_pos), CharAt(b, tzinfo_pos + 1),
                  tzinfo_pos = Len(b),
                  parse_hh_mm_ss_ff(b, p, tzinfo_pos),
                  parse_hh_mm_ss_ff(b, tzinfo_pos + 1, Len(b)))
parse_isoformat_time(b, p) == parse_isoformat_time_at(b, p, tzinfo_position(b, p))

\* datetime.fromisoformat of Python 3.11: [ok, aware, at], at being the
\* timedelta from 0001-01-01T00:00:00 less one day (in UTC when the text
\* names a zone); ok is FALSE when ValueError is raised
NotIso == [ok |-> FALSE, aware |-> FALSE, at |-> TdZero]
date_and_time(date, has_time, time) ==
    IF date = <<>> THEN NotIso
    ELSE IF date[1] < 1 \/ date[1] > MaxOrdinal THEN NotIso
    ELSE IF ~has_time THEN [ok |-> TRUE, aware |-> FALSE, at |-> Td(date[1], 0, 0)]
    ELSE IF ~time.ok THEN NotIso
    ELSE [ok |-> TRUE, aware |-> time.aware,
          at |-> TdSub(TdAdd(Td(date[1], 0, 0), time.time), time.tz)]
\* the bytes with the date part ending at separator_location and the time
\* part starting at time_location
fromisoformat_at(b, separator_location, time_location) ==
    IF Len(b) > separator_location /\ Len(b) <= time_location THEN NotIso
    ELSE date_and_time(parse_isoformat_date(b, separator_location),
                       Len(b) > separator_location,
                       parse_isoformat_time(b, time_location))
fromisoformat_from(b, separator_location) ==
    IF Len(b) < 7 \/ separator_location < 0 THEN NotIso
    ELSE fromisoformat_at(b, separator_location,
                          IF CharAt(b, separator_location) = HighByte
                          THEN separator_location + 2
                          ELSE separator_location + 1)
fromisoformat_bytes(b) ==
    fromisoformat_from(b, find_isoformat_datetime_separator(b))
\* _sanitize_isoformat_str: a surrogate is let stand for the separator: the
\* first one at offset 7, 8 or 10 is replaced by T
sanitize_isoformat_str(s) ==
    LET at == {p \in {7, 8, 10} : p < Len(s) /\ s[p + 1] \in Surrogates}
    IN IF at = {} THEN s
       ELSE [s EXCEPT ![(CHOOSE p \in at : \A q \in at : p <= q) + 1] = "T"]
\* datetime.fromisoformat: a text of less than 7 characters is refused;
\* PyUnicode_AsUTF8AndSize of the sanitized text fails on a surrogate
fromisoformat(s) ==
    IF Len(s) < 7 THEN NotIso
    ELSE LET dtstr_clean == sanitize_isoformat_str(s)
         IN IF ~Encodable(dtstr_clean) THEN NotIso
            ELSE fromisoformat_bytes(Utf8(dtstr_clean))

\* the try block of calculate_hours: the time from punch in to punch out,
\* or raised: a text that is no timestamp (ValueError), or one timestamp
\* with a zone and one without (TypeError)
difference(in_time, out_time) ==
    IF in_time.ok /\ out_time.ok /\ in_time.aware = out_time.aware
    THEN [raised |-> FALSE, span |-> TdSub(out_time.at, in_time.at)]
    ELSE [raised |-> TRUE, span |-> TdZero]
time_difference(punch_in_time, punch_out_time) ==
    difference(fromisoformat(ReplaceZ(punch_in_time)),
               fromisoformat(ReplaceZ(punch_out_time)))

\* `not x` of a JSON text or None
NoText(x) == x = None \/ x = <<>>

\* what calculate_hours returns: the hours, and whether the error was printed
Returned(span, flagged) ==
    [kind |-> "finite", span |-> span, exact |-> TRUE, flagged |-> flagged]


\* calculate_hours of test_pay_period_totals.py, lines 56-72
tot_hours_of(diff) ==
    IF diff.raised THEN Returned(TdZero, TRUE)
    ELSE Returned(TdMax(TdZero, TdMin(Hours(24), diff.span)), FALSE)
tot_calculate_hours(punch_in_time, punch_out_time) ==
    IF NoText(punch_in_time) \/ NoText(punch_out_time)
    THEN Returned(TdZero, FALSE)
    ELSE tot_hours_of(time_difference(punch_in_time, punch_out_time))

\* calculate_hours of test_employee_hours.py, lines 75-90
hrs_hours_of(diff) ==
    IF diff.raised THEN Returned(TdZero, TRUE)
    ELSE Returned(TdMax(TdZero, diff.span), FALSE)
hrs_calculate_hours(punch_in_time, punch_out_time) ==
    IF NoText(punch_in_time) \/ NoText(punch_out_time)
    THEN Returned(TdZero, FALSE)
    ELSE hrs_hours_of(time_difference(punch_in_time, punch_out_time))

\* the duration field of a punch: absent, a JSON number of that many hours,
\* or a JSON text
NoDuration == [kind |-> "none", span |-> TdZero, text |-> <<>>]
NumDuration(span) == [kind |-> "num", span |-> span, text |-> <<>>]
StrDuration(text) == [kind |-> "str", span |-> TdZero, text |-> text]

\* `if duration:` of a JSON value: None, 0 and "" are false
duration_truthy(duration) ==
    \/ duration.kind = "num" /\ duration.span # TdZero
    \/ duration.kind = "str" /\ duration.text # <<>>

\* the digits of 2^1024 - 2^970, the least number float() gives as inf: a
\* number of 309 digits
OverflowDigits ==
    <<1, 7, 9, 7, 6, 9, 3, 1, 3, 4, 8, 6, 2, 3, 1, 5, 8, 0, 7, 9, 3, 7, 2, 8,
      9, 7, 1, 4, 0, 5, 3, 0, 3, 4, 1, 5, 0, 7, 9, 9, 3, 4, 1, 3, 2, 7, 1, 0,
      0, 3, 7, 8, 2, 6, 9, 3, 6, 1, 7, 3, 7, 7, 8, 9, 8, 0, 4, 4, 4, 9, 6, 8,
      2, 9, 2, 7, 6, 4, 7, 5, 0, 9, 4, 6, 6, 4, 9, 0, 1, 7, 9, 7, 7, 5, 8, 7,
      2, 0, 7, 0, 9, 6, 3, 3, 0, 2, 8, 6, 4, 1, 6, 6, 9, 2, 8, 8, 7, 9, 1, 0,
      9, 4, 6, 5, 5, 5, 5, 4, 7, 8, 5, 1, 9, 4, 0, 4, 0, 2, 6, 3, 0, 6, 5, 7,
      4, 8, 8, 6, 7, 1, 5, 0, 5, 8, 2, 0, 6, 8, 1, 9, 0, 8, 9, 0, 2, 0, 0, 0,
      7, 0, 8, 3, 8, 3, 6, 7, 6, 2, 7, 3, 8, 5, 4, 8, 4, 5, 8, 1, 7, 7, 1, 1,
      5, 3, 1, 7, 6, 4, 4, 7, 5, 7, 3, 0, 2, 7, 0, 0, 6, 9, 8, 5, 5, 5, 7, 1,
      3, 6, 6, 9, 5, 9, 6, 2, 2, 8, 4, 2, 9, 1, 4, 8, 1, 9, 8, 6, 0, 8, 3, 4,
      9, 3, 6, 4, 7, 5, 2, 9, 2, 7, 1, 9, 0, 7, 4, 1, 6, 8, 4, 4, 4, 3, 6, 5,
      5, 1, 0, 7, 0, 4, 3, 4, 2, 7, 1, 1, 5, 5, 9, 6, 9, 9, 5, 0, 8, 0, 9, 3,
      0, 4, 2, 8, 8, 0, 1, 7, 7, 9, 0, 4, 1, 7, 4, 4, 9, 7, 7, 9, 2>>

\* the digits of 2^-1075 after its 323 leading zeros, the greatest number
\* float() gives as 0.0
UnderflowDigits ==
    <<2, 4, 7, 0, 3, 2, 8, 2, 2, 9, 2, 0, 6, 2, 3, 2, 7, 2, 0, 8, 8, 2, 8, 4,
      3, 9, 6, 4, 3, 4, 1, 1, 0, 6, 8, 6, 1, 8, 2, 5, 2, 9, 9, 0, 1, 3, 0, 7,
      1, 6, 2, 3, 8, 2, 2, 1, 2, 7, 9, 2, 8, 4, 1, 2, 5, 0, 3, 3, 7, 7, 5, 3,
      6, 3, 5, 1, 0, 4, 3, 7, 5, 9, 3, 2, 6, 4, 9, 9, 1, 8, 1, 8, 0, 8, 1, 7,
      9, 9, 6, 1, 8, 9, 8, 9, 8, 2, 8, 2, 3, 4, 7, 7, 2, 2, 8, 5, 8, 8, 6, 5,
      4, 6, 3, 3, 2, 8, 3, 5, 5, 1, 7, 7, 9, 6, 9, 8, 9, 8, 1, 9, 9, 3, 8, 7,
      3, 9, 8, 0, 0, 5, 3, 9, 0, 9, 3, 9, 0, 6, 3, 1, 5, 0, 3, 5, 6, 5, 9, 5,
      1, 5, 5, 7, 0, 2, 2, 6, 3, 9, 2, 2, 9, 0, 8, 5, 8, 3, 9, 2, 4, 4, 9, 1,
      0, 5, 1, 8, 4, 4, 3, 5, 9, 3, 1, 8, 0, 2, 8, 4, 9, 9, 3, 6, 5, 3, 6, 1,
      5, 2, 5, 0, 0, 3, 1, 9, 3, 7, 0, 4, 5, 7, 6, 7, 8, 2, 4, 9, 2, 1, 9, 3,
      6, 5, 6, 2, 3, 6, 6, 9, 8, 6, 3, 6, 5, 8, 4, 8, 0, 7, 5, 7, 0, 0, 1, 5,
      8, 5, 7, 6, 9, 2, 6, 9, 9, 0, 3, 7, 0, 6, 3, 1, 1, 9, 2, 8, 2, 7, 9, 5,
      5, 8, 5, 5, 1, 3, 3, 2, 9, 2, 7, 8, 3, 4, 3, 3, 8, 4, 0, 9, 3, 5, 1, 9,
      7, 8, 0, 1, 5, 5, 3, 1, 2, 4, 6, 5, 9, 7, 2, 6, 3, 5, 7, 9, 5, 7, 4, 6,
      2, 2, 7, 6, 6, 4, 6, 5, 2, 7, 2, 8, 2, 7, 2, 2, 0, 0, 5, 6, 3, 7, 4, 0,
      0, 6, 4, 8, 5, 4, 9, 9, 9, 7, 7, 0, 9, 6, 5, 9, 9, 4, 7, 0, 4, 5, 4, 0,
      2, 0, 8, 2, 8, 1, 6, 6, 2, 2, 6, 2, 3, 7, 8, 5, 7, 3, 9, 3, 4, 5, 0, 7,
      3, 6, 3, 3, 9, 0, 0, 7, 9, 6, 7, 7, 6, 1, 9, 3, 0, 5, 7, 7, 5, 0, 6, 7,
      4, 0, 1, 7, 6, 3, 2, 4, 6, 7, 3, 6, 0, 0, 9, 6, 8, 9, 5, 1, 3, 4, 0, 5,
      3, 5, 5, 3, 7, 4, 5, 8, 5, 1, 6, 6, 6, 1, 1, 3, 4, 2, 2, 3, 7, 6, 6, 6,
      7, 8, 6, 0, 4, 1, 6, 2, 1, 5, 9, 6, 8, 0, 4, 6, 1, 9, 1, 4, 4, 6, 7, 2,
      9, 1, 8, 4, 0, 3, 0, 0, 5, 3, 0, 0, 5, 7, 5, 3, 0, 8, 4, 9, 0, 4, 8, 7,
      6, 5, 3, 9, 1, 7, 1, 1, 3, 8, 6, 5, 9, 1, 6, 4, 6, 2, 3, 9, 5, 2, 4, 9,
      1, 2, 6, 2, 3, 6, 5, 3, 8, 8, 1, 8, 7, 9, 6, 3, 6, 2, 3, 9, 3, 7, 3, 2,
      8, 0, 4, 2, 3, 8, 9, 1, 0, 1, 8, 6, 7, 2, 3, 4, 8, 4, 9, 7, 6, 6, 8, 2,
      3, 5, 0, 8, 9, 8, 6, 3, 3, 8, 8, 5, 8, 7, 9, 2, 5, 6, 2, 8, 3, 0, 2, 7,
      5, 5, 9, 9, 5, 6, 5, 7, 5, 2, 4, 4, 5, 5, 5, 0, 7, 2, 5, 5, 1, 8, 9, 3,
      1, 3, 6, 9, 0, 8, 3, 6, 2, 5, 4, 7, 7, 9, 1, 8, 6, 9, 4, 8, 6, 6, 7, 9,
      9, 4, 9, 6, 8, 3, 2, 4, 0, 4, 9, 7, 0, 5, 8, 2, 1, 0, 2, 8, 5, 1, 3, 1,
      8, 5, 4, 5, 1, 3, 9, 6, 2, 1, 3, 8, 3, 7, 7, 2, 2, 8, 2, 6, 1, 4, 5, 4,
      3, 7, 6, 9, 3, 4, 1, 2, 5, 3, 2, 0, 9, 8, 5, 9, 1, 3, 2, 7, 6, 6, 7, 2,
      3, 6, 3, 2, 8, 1, 2, 5>>

\* the hours from which on a float is held as "large" only
LargeDigits == 6

\* a float: finite with its hours (exact, or the hours cut to the
\* microsecond below them), finite and of 10^LargeDigits hours or more
\* ("large"), infinite, or not a number; sign is that of the float, 0 for a
\* zero and for nan
Float(kind, sign, span, exact) ==
    [ok |-> TRUE, kind |-> kind, sign |-> sign, span |-> span, exact |-> exact]
NoFloat == [ok |-> FALSE, kind |-> "nan", sign |-> 0, span |-> TdZero, exact |-> TRUE]

\* the ASCII digit float() and int() read a decimal character as
AsciiOf(c) == IF IsDecimal(c) THEN DigitChar(DecimalVal(c)) ELSE c

\* an underscore stands between two digits
UnderscoresBetweenDigits(a) ==
    \A i \in 1..Len(a) :
        a[i] = "_" => /\ i > 1 /\ i < Len(a)
                      /\ a[i - 1] \in Digits /\ a[i + 1] \in Digits

AllDigits(a) == \A i \in 1..Len(a) : a[i] \in Digits

\* the text read without regard to case
SpelledAs(a, word) ==
    /\ Len(a) = Len(word)
    /\ \A i \in 1..Len(a) : a[i] \in word[i]
InfWords ==
    { <<{"i", "I"}, {"n", "N"}, {"f", "F"}>>,
      <<{"i", "I"}, {"n", "N"}, {"f", "F"}, {"i", "I"}, {"n", "N"}, {"i", "I"},
        {"t", "T"}, {"y", "Y"}>> }
NanWord == <<{"n", "N"}, {"a", "A"}, {"n", "N"}>>

\* the first place of a text where one of the characters stands, 0 when
\* there is none
FirstOf(a, chars) ==
    LET places == {i \in 1..Len(a) : a[i] \in chars}
    IN IF places = {} THEN 0 ELSE CHOOSE i \in places : \A j \in places : i <= j

\* digits without the zeros they start with
DropZeros(d) ==
    LET first == FirstOf(d, Digits \ {"0"})
    IN IF first = 0 THEN <<>> ELSE SubSeq(d, first, Len(d))

\* the exponent of a float text, cut to `most`
ExponentValue(digits, most) ==
    IF Len(DropZeros(digits)) > 9 THEN most
    ELSE MinNat(DigitRunValue(DropZeros(digits)), most)

\* digit i of a sequence of digits that goes on with zeros
DigitOr0(d, i) == IF i >= 1 /\ i <= Len(d) THEN DigitVal(d[i]) ELSE 0
RECURSIVE DigitsOr0(_, _, _)
DigitsOr0(d, from, n) ==
    IF n = 0 THEN 0
    ELSE 10 * DigitsOr0(d, from, n - 1) + DigitOr0(d, from + n - 1)

\* 0.d compared with 0.t, d being a text of digits and t a tuple of digits:
\* -1, 0 or 1
CompareDigits(d, t) ==
    LET TupleOr0(i) == IF i <= Len(t) THEN t[i] ELSE 0
        differ == {i \in 1..(Len(d) + Len(t)) : DigitOr0(d, i) # TupleOr0(i)}
        first == CHOOSE i \in differ : \A j \in differ : i <= j
    IN IF differ = {} THEN 0
       ELSE IF DigitOr0(d, first) < TupleOr0(first) THEN -1 ELSE 1

\* 36 times the fraction 0.d(i)d(i+1)... of a sequence of digits, by long
\* multiplication from the right, seven digits at a time: the whole part
\* (carry), and whether nothing is left behind the point (exact); the
\* digits before the first are zeros
RECURSIVE Times36(_, _)
Times36(d, i) ==
    IF \A j \in i..Len(d) : j < 1 \/ d[j] = "0" THEN [carry |-> 0, exact |-> TRUE]
    ELSE IF i < -7 THEN [carry |-> 0, exact |-> \A j \in 1..Len(d) : d[j] = "0"]
    ELSE LET right == Times36(d, i + 7)
             v == DigitsOr0(d, i, 7) * 36 + right.carry
         IN [carry |-> v \div 10000000, exact |-> right.exact /\ v % 10000000 = 0]

\* the hours 0.m * 10^k of a float below 10^LargeDigits, m being digits that
\* start with no zero: the whole hours, and the fraction cut to the
\* microsecond (an hour is 36 * 10^8 microseconds); exact when nothing is
\* cut
MagnitudeOf(m, k) ==
    LET whole == IF k > 0 THEN DigitsOr0(m, 1, k) ELSE 0
        \* digit j of the fraction is digit k + j of m
        f1 == DigitsOr0(m, k + 1, 4)
        f2 == DigitsOr0(m, k + 5, 4)
        rest == Times36(m, k + 9)
    IN [span |-> TdAdd(Hours(whole),
                       Td(0, (f1 * 36) \div 100,
                          ((f1 * 36) % 100) * 10000 + f2 * 36 + rest.carry)),
        exact |-> rest.exact]

\* the float of sign * 0.m * 10^k, m being digits that start with no zero
float_of_magnitude(sign, magnitude) ==
    Float("finite", sign,
          IF sign < 0 THEN TdNeg(magnitude.span) ELSE magnitude.span,
          magnitude.exact)
float_of_digits(sign, m, k) ==
    IF m = <<>> THEN Float("finite", 0, TdZero, TRUE)
    ELSE IF k > 309 \/ (k = 309 /\ CompareDigits(m, OverflowDigits) >= 0)
    THEN Float("inf", sign, TdZero, TRUE)
    ELSE IF k > LargeDigits THEN Float("large", sign, TdZero, TRUE)
    ELSE IF k < -323 \/ (k = -323 /\ CompareDigits(m, UnderflowDigits) <= 0)
    THEN Float("finite", 0, TdZero, TRUE)
    ELSE float_of_magnitude(sign, MagnitudeOf(m, k))

\* the float of a sign, the digits before and behind the point, and the
\* text behind the e.  An exponent of 400 more than the text has digits
\* gives 0.0 or inf whatever the digits are, so the exponent is cut there
float_of_parts(sign, whole, frac, exponent) ==
    IF /\ AllDigits(whole) /\ AllDigits(frac) /\ whole \o frac # <<>>
       /\ Unsigned(exponent) # <<>> /\ AllDigits(Unsigned(exponent))
    THEN float_of_digits(sign, DropZeros(whole \o frac),
                         Len(DropZeros(whole \o frac))
                             + SignOf(exponent)
                                   * ExponentValue(Unsigned(exponent),
                                                   Len(whole) + Len(frac) + 400)
                             - Len(frac))
    ELSE NoFloat

\* the text before the first of the characters, and the text behind it
\* (`none` when there is none of them)
Before(a, chars) ==
    IF FirstOf(a, chars) = 0 THEN a ELSE SubSeq(a, 1, FirstOf(a, chars) - 1)
Behind(a, chars, none) ==
    IF FirstOf(a, chars) = 0 THEN none ELSE SubSeq(a, FirstOf(a, chars) + 1, Len(a))

float_of_mantissa(sign, mantissa, exponent) ==
    float_of_parts(sign, Before(mantissa, {"."}), Behind(mantissa, {"."}, <<>>),
                   exponent)

\* the float of a sign and the text behind it
float_of_unsigned(sign, r) ==
    IF \E w \in InfWords : SpelledAs(r, w) THEN Float("inf", sign, TdZero, TRUE)
    ELSE IF SpelledAs(r, NanWord) THEN Float("nan", 0, TdZero, TRUE)
    ELSE float_of_mantissa(sign, Before(r, {"e", "E"}),
                           Behind(r, {"e", "E"}, <<"0">>))

\* the float of a text without underscores
float_of_signed(u) == float_of_unsigned(SignOf(u), Unsigned(u))

\* the float of a text of ASCII digits
float_of_ascii(a) ==
    IF ~UnderscoresBetweenDigits(a) THEN NoFloat
    ELSE float_of_signed(SelectSeq(a, LAMBDA c : c # "_"))

\* the text with its decimal characters read as ASCII digits
Transformed(t) == [i \in 1..Len(t) |-> AsciiOf(t[i])]

\* float(text): the white space around the text is dropped, decimal
\* characters are read as digits, underscores stand between digits; then a
\* sign and inf, infinity or nan, or a sign, digits with at most one point,
\* and an exponent.  ok is FALSE when ValueError is raised
float_of_text(text) ==
    float_of_ascii(Transformed(RStripOf(LStripOf(text, NumberWhitespace),
                                        NumberWhitespace)))

\* float(duration), lines 197-204
float_of_duration(duration) ==
    IF duration.kind = "num"
    THEN Float("finite",
               IF duration.span = TdZero THEN 0
               ELSE IF TdLess(duration.span, TdZero) THEN -1 ELSE 1,
               duration.span, TRUE)
    ELSE float_of_text(duration.text)

\* `a or b` of two JSON texts, each of which may be None
text_or(a, b) == IF ~NoText(a) THEN a ELSE b

\* lines 207-208 of test_pay_period_totals.py: the timestamps of a punch
\* under either name of the field
tot_punch_in_time(fields) ==
    text_or(fields.punch_in_time, fields["Punch In Time"])
tot_punch_out_time(fields) ==
    text_or(fields.punch_out_time, fields["Punch Out Time"])

\* lines 191-213 of test_pay_period_totals.py: what one punch adds to
\* total_hours
tot_hours_from(fields, as_float) ==
    IF duration_truthy(fields.duration) /\ as_float.ok /\ as_float.sign > 0
    THEN [kind |-> as_float.kind, span |-> as_float.span,
          exact |-> as_float.exact, flagged |-> FALSE]
    ELSE IF ~NoText(tot_punch_in_time(fields)) /\ ~NoText(tot_punch_out_time(fields))
    THEN tot_calculate_hours(tot_punch_in_time(fields), tot_punch_out_time(fields))
    ELSE Returned(TdZero, FALSE)
tot_punch_hours(fields) == tot_hours_from(fields, float_of_duration(fields.duration))

\* lines 245-254 of test_employee_hours.py: what one punch adds to the
\* total_hours of its employee
hrs_punch_hours(fields) ==
    IF duration_truthy(fields.duration) /\ fields.duration.kind = "num"
    THEN Returned(fields.duration.span, FALSE)
    ELSE IF ~NoText(fields.punch_in_time) /\ ~NoText(fields.punch_out_time)
    THEN hrs_calculate_hours(fields.punch_in_time, fields.punch_out_time)
    ELSE Returned(TdZero, FALSE)

AbsentLink == [kind |-> "absent", ids |-> <<>>]
ScalarLink(id) == [kind |-> "scalar", ids |-> <<id>>]
ListLink(ids) == [kind |-> "list", ids |-> ids]

\* the id of a linked-record field: the first element of a list, the value
\* itself when it is no list, None when there is none (lines 171-175 of
\* test_pay_period_totals.py; lines 183-185 and 205-207 of
\* test_employee_hours.py)
unwrap_link(link) == IF link.ids # <<>> THEN link.ids[1] ELSE None

\* `if link:` of a linked-record field: None, '' and [] are false
link_truthy(link) ==
    link.ids # <<>> /\ ~(link.kind = "scalar" /\ Falsy(link.ids[1]))

\* a linked-record field written by print: a list is written as its repr,
\* which escapes every surrogate, None as 'None', a text as it is
link_printable(link, errors) ==
    link.kind # "scalar" \/ Writable(link.ids[1], errors)

\* line 171 of test_pay_period_totals.py:
\* fields.get('time_card_id') or fields.get('Time Card')
tot_time_card_field(fields) ==
    IF link_truthy(fields.time_card_id) THEN fields.time_card_id
    ELSE fields["Time Card"]

\* lines 172-177 and 184-186: the unwrapped id is one of the time cards
is_linked(link, time_card_ids) ==
    ~Falsy(unwrap_link(link)) /\ unwrap_link(link) \in time_card_ids

\* every punch taken as linked
all_taken_as_linked(punches, time_card_ids) == punches

\* lines 165-178 of test_pay_period_totals.py: the punches linked to one of
\* the time cards
tot_linked_to(punches, time_card_ids) ==
    SelectSeq(punches,
              LAMBDA p : is_linked(tot_time_card_field(p.fields), time_card_ids))

\* lines 181-187 of test_employee_hours.py: the punches linked to one of the
\* time cards
hrs_linked_to(punches, time_card_ids) ==
    SelectSeq(punches, LAMBDA p : is_linked(p.fields.time_card_id, time_card_ids))

\* the linked punches only, without the fallback
filter_without_fallback(all_punches, time_card_ids, linked_punches) ==
    IF time_card_ids # {} THEN linked_punches ELSE all_punches

\* lines 163-187 and 180-197: the punches the hours are taken from, the
\* linked punches being linked_punches
filter_punches(all_punches, time_card_ids, linked_punches) ==
    IF time_card_ids # {} /\ linked_punches # <<>> THEN linked_punches
    ELSE all_punches

\* whether "No punches linked to time cards, using all ..." is printed
fallback_printed(time_card_ids, linked_punches) ==
    time_card_ids # {} /\ linked_punches = <<>>

\* the sum of the hours of a sequence of contributions
RECURSIVE SumHours(_)
SumHours(contributions) ==
    IF contributions = <<>> THEN TdZero
    ELSE TdAdd(Head(contributions).span, SumHours(Tail(contributions)))

\* the hours are a whole number of 1024ths of an hour (3515625 microseconds),
\* which a float holds exactly
Dyadic(span) ==
    ((span.seconds % 225) * 1000000 + span.microseconds) % 3515625 = 0

\* total_hours after the loop of lines 191-213: infinite when a duration is,
\* "large" when one is, else the sum; exact when the float sum is the sum
total_of(contributions) ==
    LET kinds == {contributions[k].kind : k \in 1..Len(contributions)}
    IN [kind |-> IF "inf" \in kinds THEN "inf"
                 ELSE IF "large" \in kinds THEN "large" ELSE "finite",
        span |-> SumHours(contributions),
        exact |-> \A k \in 1..Len(contributions) :
                      contributions[k].exact /\ Dyadic(contributions[k].span)]

\* how many of the contributions had their error printed
FlaggedIn(contributions) == Len(SelectSeq(contributions, LAMBDA c : c.flagged))

\* lines 191-213 of test_pay_period_totals.py over the punches used
RECURSIVE tot_contributions(_)
tot_contributions(punches) ==
    IF punches = <<>> THEN <<>>
    ELSE <<tot_punch_hours(Head(punches).fields)>> \o tot_contributions(Tail(punches))

\* lines 245-254 of test_employee_hours.py over the punches of an employee
RECURSIVE hrs_contributions(_)
hrs_contributions(punches) ==
    IF punches = <<>> THEN <<>>
    ELSE <<hrs_punch_hours(Head(punches).fields)>> \o hrs_contributions(Tail(punches))

\* how far from the middle between two hundredths of an hour, in
\* microseconds, the float total_hours * 100 may fall on either side of it:
\* more than the error of a float sum of a few hours below 10^LargeDigits
TieWindow == 100

\* line 215: round(total_hours * 100) / 100, the values it may give.  The
\* nearest hundredth; in the middle between two hundredths the even one when
\* the float total is the sum itself, and either one when it is not
round_2dp(total) ==
    LET q == total.span.days * 2400 + total.span.seconds \div 36
        r == (total.span.seconds % 36) * 1000000 + total.span.microseconds
        half == 18000000
    IN IF total.exact
       THEN {HundredthsOfHour(IF r < half THEN q
                              ELSE IF r > half THEN q + 1
                              ELSE IF q % 2 = 0 THEN q ELSE q + 1)}
       ELSE IF r < half - TieWindow THEN {HundredthsOfHour(q)}
       ELSE IF r > half + TieWindow THEN {HundredthsOfHour(q + 1)}
       ELSE {HundredthsOfHour(q), HundredthsOfHour(q + 1)}

(***************************************************************************)
(* Bounds and inputs                                                       *)
(***************************************************************************)
MaxStrLen == 4
ParseAlphabet == {"0", "1", "2", ",", " ", "\t", "-", "_", "x"}

NumDepts == 2
MaxRuns == 2
MaxFailures == 1

\* anchor years 2024 (a leap year) .. 2024 + YearSpan
YearSpan == 1
AnchorYears == 2024..(2024 + YearSpan)

TemplateDays == 1..31
PayoutDayTexts == {Last, <<"1", "5">>, <<"3", "1">>}

Templates ==
    [start_day : TemplateDays, end_day : TemplateDays,
     payout_day : PayoutDayTexts, payout_month_offset : {0, 1}]

\* the classifier's dates: RelDays consecutive days from 2025-11-29 on
RelDays == 3
RelDates ==
    {IF k <= 2 THEN <<2025, 11, 28 + k>> ELSE <<2025, 12, k - 2>> :
         k \in 1..RelDays}

TimesOfDay == {<<0, 0, 0>>, <<23, 59, 59>>}

\* the positions of the Pay Periods listing, and the id of the record at one
PeriodIds == 1..2
PeriodIdText(k) == <<"p", "p">> \o IntToStr(k)

\* two digits, as the store writes months and days
Pad2(n) == IF n < 10 THEN <<"0">> \o IntToStr(n) ELSE IntToStr(n)

\* 'YYYY-MM-DD'
DateText(d) == IntToStr(d[1]) \o <<"-">> \o Pad2(d[2]) \o <<"-">> \o Pad2(d[3])

\* the same day as an ISO timestamp, 'YYYY-MM-DDT08:00'
StampText(d) == DateText(d) \o <<"T", "0", "8", ":", "0", "0">>

\* the first of the dates behind a lone surrogate, which is no date, and as
\* a timestamp whose time is a lone surrogate; each with a surrogate that no
\* stdout writes and with one that a surrogateescape stdout writes
FirstRelDate == <<2025, 11, 29>>
SurrogateDateTexts ==
    {DateText(FirstRelDate) \o <<"\\ud800">>,
     DateText(FirstRelDate) \o <<"\\udc80">>,
     DateText(FirstRelDate) \o <<"T", "\\udfff">>,
     DateText(FirstRelDate) \o <<"T", "\\udcff">>}

DateFieldValues ==
    {None} \cup {DateText(d) : d \in RelDates} \cup {StampText(FirstRelDate)}
        \cup SurrogateDateTexts

\* the date texts of the records listed behind the first one
LaterDateFieldValues ==
    {None} \cup {DateText(d) : d \in RelDates}
        \cup {DateText(FirstRelDate) \o <<"\\udc80">>}

RECURSIVE TextsUpTo(_, _)
\* the longest day list of a department given to the period loop
MaxDays == 3
\* day values of start and end day lists, and of payout day lists
ResolverDays == {0, 10, 11, 25, 26}
PayoutValues == {1, 15}

\* the lists of at most n values of S
ListsUpTo(S, n) == UNION {[1..k -> S] : k \in 0..n}

TextsUpTo(alphabet, n) ==
    IF n = 0 THEN {<<>>}
    ELSE LET shorter == TextsUpTo(alphabet, n - 1)
         IN shorter \cup {Append(t, c) : t \in shorter, c \in alphabet}

Semi == <<"s", "e", "m", "i">>

Setting(type, starts, ends, payouts) ==
    [pay_period_type |-> type, pay_period_start_days |-> starts,
     pay_period_end_days |-> ends, payout_days |-> payouts]

\* the department settings a batch is drawn from
DeptSettings ==
    { \* "11, 26" / "10, 25" / "15, 1": the example of the source's comments
      Setting(Semi, <<"1", "1", ",", " ", "2", "6">>,
                    <<"1", "0", ",", " ", "2", "5">>,
                    <<"1", "5", ",", " ", "1">>),
      \* "1,16" / "31,15": the same convention for periods 1-15 and 16-31
      Setting(Semi, <<"1", ",", "1", "6">>, <<"3", "1", ",", "1", "5">>, <<>>),
      \* no pay period type
      Setting(None, <<"1", "1", ",", "2", "6">>, <<"1", "0", ",", "2", "5">>,
                    <<"1", "5", ",", "1">>),
      \* no start days
      Setting(Semi, <<>>, <<"1", "0", ",", "2", "5">>, <<"1", "5", ",", "1">>),
      \* no end days
      Setting(Semi, <<"1", ",", "1", "6">>, None, <<"1">>),
      \* more start days than end days
      Setting(Semi, <<"1", ",", "1", "6">>, <<"3", "1">>, <<"1">>),
      \* "5" / "0" / "1": an end day of 0
      Setting(Semi, <<"5">>, <<"0">>, <<"1">>) }

\* limit = 2000 of the punch paging, and the safety limit of
\* calculate_pay_period_totals
page_limit == 2000
safety_limit == 10000

\* the most pages the Punches table is listed in, and the most page requests
\* of test_employee_hours.py that are followed
MaxPages == 2
MaxRequests == 6

\* timestamps of 12 and 13 November 2025, as the store gives them
Stamp(day, h, mi, s) ==
    DateText(<<2025, 11, day>>) \o <<"T">> \o Pad2(h) \o <<":">> \o Pad2(mi)
        \o <<":">> \o Pad2(s) \o <<"Z">>
NaiveStamp(day, h, mi, s) == SubSeq(Stamp(day, h, mi, s), 1, 19)
\* the timestamp with milliseconds
MilliStamp(day, h, mi, s, ms) ==
    NaiveStamp(day, h, mi, s) \o <<".">> \o Pad2(ms \div 10) \o IntToStr(ms % 10)
        \o <<"Z">>

\* the ids of the employees and of the time cards
Emp(n) == <<"e">> \o IntToStr(n)
Card(n) == <<"t", "c">> \o IntToStr(n)

\* a punch of a store that names the fields time_card_id, punch_in_time and
\* punch_out_time
Punch(id, employee, time_card, duration, punch_in, punch_out) ==
    [id |-> id,
     fields |-> [employee_id |-> employee, time_card_id |-> time_card,
                 duration |-> duration, punch_in_time |-> punch_in,
                 punch_out_time |-> punch_out,
                 punch_in |-> None, in_time |-> None]
                    @@ ("Time Card" :> AbsentLink) @@ ("Punch In Time" :> None)
                    @@ ("Punch Out Time" :> None)]

\* the punch as a store gives it that names the three fields 'Time Card',
\* 'Punch In Time' and 'Punch Out Time'
Titled(punch) ==
    [id |-> punch.id,
     fields |-> [employee_id |-> punch.fields.employee_id,
                 time_card_id |-> AbsentLink,
                 duration |-> punch.fields.duration,
                 punch_in_time |-> None, punch_out_time |-> None,
                 punch_in |-> punch.fields.punch_in,
                 in_time |-> punch.fields.in_time]
                    @@ ("Time Card" :> punch.fields.time_card_id)
                    @@ ("Punch In Time" :> punch.fields.punch_in_time)
                    @@ ("Punch Out Time" :> punch.fields.punch_out_time)]

\* a timestamp with a lone surrogate behind its microseconds, which is no
\* timestamp, and one with a lone surrogate in the place of the T
SurrogateStamp(day, h, mi, s) ==
    NaiveStamp(day, h, mi, s) \o <<".", "0", "0", "0", "0", "0", "0", "\\ud800", "Z">>
SurrogateSeparated(day, h, mi, s) ==
    [Stamp(day, h, mi, s) EXCEPT ![11] = "\\udc00"]

\* the punches the pages are made of
PunchKinds ==
    << \* 2 h and 3.5 h of employee e1, linked to time card tc1
       Punch("p1", ListLink(<<Emp(1)>>), ListLink(<<Card(1)>>), NoDuration,
             Stamp(12, 8, 0, 0), Stamp(12, 10, 0, 0)),
       Punch("p2", ScalarLink(Emp(1)), ScalarLink(Card(1)), NoDuration,
             MilliStamp(12, 8, 0, 0, 0), MilliStamp(12, 11, 30, 0, 0)),
       \* not punched out, linked to a time card of another period
       Punch("p3", ListLink(<<Emp(1)>>), ListLink(<<Card(9)>>), NoDuration,
             Stamp(12, 8, 0, 0), None),
       \* a duration of 2.5 h beside timestamps 2 h apart
       Punch("p4", ListLink(<<Emp(2)>>), AbsentLink, NumDuration(Td(0, 9000, 0)),
             Stamp(12, 8, 0, 0), Stamp(12, 10, 0, 0)),
       \* a duration of -1.5 h and no timestamps
       Punch("p5", ListLink(<<Emp(2)>>), ListLink(<<Card(1)>>), NumDuration(Td(0, -5400, 0)),
             None, None),
       \* 25 h from punch in to punch out
       Punch("p6", ListLink(<<Emp(1)>>), AbsentLink, NoDuration,
             Stamp(12, 8, 0, 0), Stamp(13, 9, 0, 0)),
       \* a punch in time that is no timestamp
       Punch("p7", ListLink(<<Emp(1)>>), AbsentLink, NoDuration,
             <<"n", "/", "a">>, Stamp(12, 10, 0, 0)),
       \* no employee
       Punch("p8", ListLink(<<>>), AbsentLink, NoDuration,
             Stamp(12, 8, 0, 0), Stamp(12, 10, 0, 0)),
       \* a duration of 30 h
       Punch("p9", ListLink(<<Emp(2)>>), ListLink(<<Card(1)>>), NumDuration(Hours(30)),
             None, None),
       \* the duration "2.5" as text beside timestamps 2 h apart
       Punch("p10", ListLink(<<Emp(1)>>), AbsentLink, StrDuration(<<"2", ".", "5">>),
             Stamp(12, 8, 0, 0), Stamp(12, 10, 0, 0)),
       \* an eighth of an hour
       Punch("p11", ListLink(<<Emp(1)>>), AbsentLink, NoDuration,
             Stamp(12, 8, 0, 0), Stamp(12, 8, 7, 30)),
       \* punched out before punched in
       Punch("p12", ListLink(<<Emp(1)>>), AbsentLink, NoDuration,
             Stamp(12, 10, 0, 0), Stamp(12, 8, 0, 0)),
       \* a punch out time without a zone
       Punch("p13", ListLink(<<Emp(2)>>), AbsentLink, NoDuration,
             Stamp(12, 8, 0, 0), NaiveStamp(12, 10, 0, 0)),
       \* an unparseable punch in time and no punch out time
       Punch("p14", ListLink(<<Emp(1)>>), AbsentLink, NoDuration,
             <<"n", "/", "a">>, None),
       \* the duration "inf" as text
       Punch("p15", ListLink(<<Emp(2)>>), AbsentLink, StrDuration(<<"i", "n", "f">>),
             None, None),
       \* the duration "0.0051" as text (18.36 s) beside timestamps 18.25 s
       \* apart
       Punch("p16", ListLink(<<Emp(2)>>), AbsentLink,
             StrDuration(<<"0", ".", "0", "0", "5", "1">>),
             MilliStamp(12, 8, 0, 0, 0), MilliStamp(12, 8, 0, 18, 250)),
       \* 2 h of employee e1, linked to time card tc1, of a store that names
       \* the fields 'Time Card', 'Punch In Time' and 'Punch Out Time'
       Titled(Punch("p17", ListLink(<<Emp(1)>>), ListLink(<<Card(1)>>), NoDuration,
                    Stamp(12, 8, 0, 0), Stamp(12, 10, 0, 0))),
       \* a punch in time with a lone surrogate behind the microseconds
       Punch("p18", ListLink(<<Emp(1)>>), ListLink(<<Card(1)>>), NoDuration,
             SurrogateStamp(12, 8, 0, 0), Stamp(12, 10, 0, 0)),
       \* 2 h, the punch out time with a lone surrogate in the place of the T
       Punch("p19", ListLink(<<Emp(2)>>), AbsentLink, NoDuration,
             Stamp(12, 8, 0, 0), SurrogateSeparated(12, 10, 0, 0)),
       \* 2 h of employee e1; the time card is a text with a byte the store
       \* could not decode, and so is the time under 'in_time'
       [Punch("p20", ListLink(<<Emp(1)>>), ScalarLink(Card(1) \o <<"\\udc80">>),
              NoDuration, Stamp(12, 8, 0, 0), Stamp(12, 10, 0, 0))
            EXCEPT !.fields.in_time = <<"0", "8", ":", "0", "0", "\\udcff">>],
       \* 2 h; the employee is a text with a lone surrogate, and so is the
       \* timestamp under 'punch_in'
       [Punch("p21", ScalarLink(<<"e", "\\ud800">>), ListLink(<<Card(1)>>),
              NoDuration, Stamp(12, 8, 0, 0), Stamp(12, 10, 0, 0))
            EXCEPT !.fields.punch_in = SurrogateStamp(12, 8, 0, 0)] >>

\* a page of the listing: empty, or one of the punches
PageOf(k) == IF k = 0 THEN <<>> ELSE <<PunchKinds[k]>>

\* the records of the Employees table: one names the employee under
\* 'Name', one under 'name', one by the email alone, which holds a byte the
\* store could not decode (None stands for a field the record does not hold)
ZoeName == <<"Z", "o", "e">>
AmyName == <<"A", "m", "y">>
Unknown == <<"U", "n", "k", "n", "o", "w", "n">>
ZoeEmail == <<"z", "o", "e", "@", "y", "u", "k", "i", ".", "t", "e", "s", "t">>
AmyEmail == <<"a", "m", "y", "\\udc80", "@", "y", "u", "k", "i", ".", "t", "e", "s", "t">>
EmployeeRecords ==
    {[id |-> Emp(1), fields |-> [Name |-> ZoeName, name |-> None, email |-> ZoeEmail]],
     [id |-> Emp(2), fields |-> [Name |-> None, name |-> AmyName, email |-> None]],
     [id |-> Emp(2), fields |-> [Name |-> None, name |-> None, email |-> AmyEmail]]}

\* the Employees tables: no two records of one id
EmployeeTables ==
    {table \in SUBSET EmployeeRecords :
         \A a, b \in table : a.id = b.id => a = b}

\* line 233 of test_employee_hours.py: Name or name or email or 'Unknown'
name_of(fields) ==
    text_or(fields.Name, text_or(fields.name, text_or(fields.email, Unknown)))

\* line 258: employees.get(emp_id, {}).get('name', 'Unknown'), employees
\* being the records the Employees listing answered with
employee_name(emp_id, employees) ==
    IF \E emp \in employees : emp.id = emp_id
    THEN name_of((CHOOSE emp \in employees : emp.id = emp_id).fields)
    ELSE Unknown

\* line 259: employees.get(emp_id, {}).get('email')
employee_email(emp_id, employees) ==
    IF \E emp \in employees : emp.id = emp_id
    THEN (CHOOSE emp \in employees : emp.id = emp_id).fields.email
    ELSE None

\* how the sort by name of line 265 orders the names: by code point
NameRank(name) ==
    CASE name = AmyName -> 1
      [] name = Unknown -> 2
      [] name = ZoeName -> 3
      [] name = AmyEmail -> 4

\* the pay period the punches are aggregated for, 11 to 25 November 2025:
\* as the store gives it, and with a lone surrogate in the start date
PayPeriodId == <<"8", "5", "f", "c">>
PayPeriodRecords ==
    {[id |-> PayPeriodId,
      fields |-> [start_date |-> DateText(<<2025, 11, 11>>),
                  end_date |-> DateText(<<2025, 11, 25>>)]],
     [id |-> PayPeriodId,
      fields |-> [start_date |-> DateText(<<2025, 11, 11>>) \o <<"T", "\\ud800">>,
                  end_date |-> DateText(<<2025, 11, 25>>)]]}

(***************************************************************************)
(* Idle values of each script's variables                                  *)
(***************************************************************************)
ParseIdle == days_str = None /\ parsed = <<>> /\ parse_pc = "idle"

MigLocalsReset ==
    /\ departments = <<>>
    /\ existing_dept_templates = <<>>
    /\ dept_idx = 0
    /\ start_days = <<>>
    /\ end_days = <<>>
    /\ payout_days = <<>>
    /\ period_i = 0
    /\ emitted = <<>>
    /\ migrated_count = 0
    /\ skipped_count = 0
    /\ mig_result = "running"
    /\ failed_call = None

\* the same values, taken by the next state
MigLocalsResetNext ==
    /\ departments' = <<>>
    /\ existing_dept_templates' = <<>>
    /\ dept_idx' = 0
    /\ start_days' = <<>>
    /\ end_days' = <<>>
    /\ payout_days' = <<>>
    /\ period_i' = 0
    /\ emitted' = <<>>
    /\ migrated_count' = 0
    /\ skipped_count' = 0
    /\ mig_result' = "running"
    /\ failed_call' = None

MigIdle ==
    /\ departments_table = <<>>
    /\ templates_table = <<>>
    /\ templates_table_exists = FALSE
    /\ link_as_list = TRUE
    /\ mig_pc = "idle"
    /\ MigLocalsReset
    /\ runs = 0
    /\ failures = 0

ResIdle ==
    /\ res_start_days = <<>>
    /\ res_end_days = <<>>
    /\ res_payout_days = <<>>
    /\ res_i = 0
    /\ res_templates = <<>>
    /\ res_pc = "idle"

InstIdle ==
    /\ tpl = None
    /\ anchor = <<0, 0>>
    /\ pay_period = None
    /\ inst_pc = "idle"

TotLocalsReset ==
    /\ tot_time_card_ids = {}
    /\ tot_time_card_count = 0
    /\ tot_offset = 0
    /\ tot_has_more = TRUE
    /\ tot_all_punches = <<>>
    /\ tot_requests = <<>>
    /\ tot_page_failed = FALSE
    /\ tot_limit_reported = FALSE
    /\ tot_filtered_punches = <<>>
    /\ tot_fallback_reported = FALSE
    /\ tot_flagged = 0
    /\ tot_result = None

HrsLocalsReset ==
    /\ hrs_time_card_ids = {}
    /\ hrs_offset = 0
    /\ hrs_all_punches = <<>>
    /\ hrs_requests = <<>>
    /\ hrs_page_failed = FALSE
    /\ hrs_filtered_punches = <<>>
    /\ hrs_fallback_reported = FALSE
    /\ hrs_flagged = 0
    /\ hrs_employee_hours = <<>>

AggStoreIdle ==
    /\ pay_period_record = None
    /\ time_cards_table = <<>>
    /\ punch_pages = <<>>
    /\ endless_pages = FALSE
    /\ employees_table = {}
    /\ store_failures = 0

AggIdle ==
    /\ AggStoreIdle
    /\ tot_pc = "idle"
    /\ TotLocalsReset
    /\ hrs_pc = "idle"
    /\ HrsLocalsReset

\* no exception has ended the script
NoException == [type |-> "", line |-> 0]

\* the exception of this type, raised by the statement of this line
Exception(type, line) == [type |-> type, line |-> line]

OutIdle == stdout_errors = "strict" /\ raised = NoException

RelIdle ==
    /\ today = DatetimeMin
    /\ pay_periods_table = <<>>
    /\ pay_periods = <<>>
    /\ current_periods = <<>>
    /\ upcoming_periods = <<>>
    /\ past_periods = <<>>
    /\ shown_period = None
    /\ no_current_warning = FALSE
    /\ rel_pc = "idle"

(***************************************************************************)
(* The parser, applied to one text                                         *)
(***************************************************************************)
InitParse ==
    /\ days_str \in TextsUpTo(ParseAlphabet, MaxStrLen) \cup {None}
    /\ parsed = <<>>
    /\ parse_pc = "call"
    /\ MigIdle
    /\ ResIdle
    /\ InstIdle
    /\ RelIdle
    /\ AggIdle
    /\ OutIdle

ParseCall ==
    /\ parse_pc = "call"
    /\ parsed' = parse_days_string(days_str)
    /\ parse_pc' = "done"
    /\ UNCHANGED <<days_str, storeVars, migVars, resVars, instVars, outVars, relVars, aggVars>>

NextParse == ParseCall

SpecParse == InitParse /\ [][NextParse]_vars

(***************************************************************************)
(* The template migration: main() of create-pay-period-templates-table.py  *)
(***************************************************************************)
InitMigrate ==
    /\ ParseIdle
    /\ ResIdle
    /\ InstIdle
    /\ RelIdle
    /\ AggIdle
    /\ OutIdle
    /\ \E f \in [1..NumDepts -> DeptSettings] :
           departments_table = [k \in 1..NumDepts |-> [id |-> k, fields |-> f[k]]]
    /\ templates_table = <<>>
    /\ templates_table_exists \in BOOLEAN
    /\ link_as_list \in BOOLEAN
    /\ mig_pc = "start"
    /\ MigLocalsReset
    /\ runs = 1
    /\ failures = 0

\* a store call may fail while the failure budget lasts
MayFail == failures < MaxFailures

\* `return` out of main() after a failed call
Abort ==
    /\ MayFail
    /\ failures' = failures + 1
    /\ failed_call' = <<mig_pc>>
    /\ mig_pc' = "done"
    /\ mig_result' = "aborted"

\* lines 220-263: the fields given to a table that was made
field_configs_count == 7

\* line 264: `else: ... return` when the database info is not fetched, and
\* line 206: `return` when create_table fails
ProvisionFails == Abort /\ UNCHANGED templates_table_exists

\* lines 177-266: the database is read and the templates table found, or
\* made and given its fields; the result of no create_field is looked at
\* (line 263), so a run goes on after any number of them failed
MigProvision ==
    /\ mig_pc = "start"
    /\ \/ ProvisionFails
       \/ /\ templates_table_exists
          /\ mig_pc' = "fetch_departments"
          /\ UNCHANGED <<mig_result, failures, failed_call,
                         templates_table_exists>>
       \/ /\ ~templates_table_exists
          /\ ProvisionFails
       \/ /\ ~templates_table_exists
          /\ templates_table_exists' = TRUE
          /\ \E failed_fields \in
                 0..MinNat(field_configs_count, MaxFailures - failures) :
                 /\ failures' = failures + failed_fields
                 /\ failed_call' = IF failed_fields > 0 THEN <<mig_pc>>
                                   ELSE failed_call
          /\ mig_pc' = "fetch_departments"
          /\ UNCHANGED mig_result
    /\ UNCHANGED <<parseVars, resVars, instVars, outVars, relVars, aggVars,
                   departments_table, templates_table, link_as_list,
                   departments, existing_dept_templates,
                   dept_idx, start_days, end_days, payout_days, period_i, emitted,
                   migrated_count, skipped_count, runs>>

\* lines 268-277
MigFetchDepartments ==
    /\ mig_pc = "fetch_departments"
    /\ \/ /\ departments' = departments_table
          /\ mig_pc' = "fetch_structure"
          /\ UNCHANGED <<mig_result, failures, failed_call>>
       \/ Abort /\ UNCHANGED departments
    /\ UNCHANGED <<parseVars, resVars, instVars, outVars, relVars, aggVars, storeVars, existing_dept_templates,
                   dept_idx, start_days, end_days, payout_days, period_i, emitted,
                   migrated_count, skipped_count, runs>>

\* lines 282-322: the table structure is read for the field ids. The run
\* ends when the database info is not fetched (line 293) or does not show
\* the table (line 301); when the table is shown without fields a record is
\* queried for, and nothing is done about a failure of that query (line 319)
MigFetchStructure ==
    /\ mig_pc = "fetch_structure"
    /\ \/ Abort
       \/ /\ mig_pc' = "done"
          /\ mig_result' = "aborted"
          /\ UNCHANGED <<failures, failed_call>>
       \/ /\ mig_pc' = "check_existing"
          /\ UNCHANGED <<mig_result, failures, failed_call>>
       \/ /\ MayFail
          /\ failures' = failures + 1
          /\ failed_call' = <<mig_pc>>
          /\ mig_pc' = "check_existing"
          /\ UNCHANGED mig_result
    /\ UNCHANGED <<parseVars, resVars, instVars, outVars, relVars, aggVars, storeVars, departments, existing_dept_templates,
                   dept_idx, start_days, end_days, payout_days, period_i, emitted,
                   migrated_count, skipped_count, runs>>

\* the department loop moves to position idx, or main() ends after it
LoopTo(idx) ==
    /\ dept_idx' = idx
    /\ IF idx > Len(departments)
       THEN mig_pc' = "done" /\ mig_result' = "complete"
       ELSE mig_pc' = "dept" /\ UNCHANGED mig_result

\* lines 324-342: a failed listing counts as no existing template
MigCheckExisting ==
    /\ mig_pc = "check_existing"
    /\ \/ /\ existing_dept_templates' =
                 group_existing([k \in 1..Len(templates_table) |->
                                     Listed(templates_table[k], link_as_list)],
                                <<>>)
          /\ UNCHANGED <<failures, failed_call>>
       \/ /\ MayFail
          /\ failures' = failures + 1
          /\ failed_call' = <<mig_pc>>
          /\ existing_dept_templates' = <<>>
    /\ LoopTo(1)
    /\ UNCHANGED <<parseVars, resVars, instVars, outVars, relVars, aggVars, storeVars, departments, start_days, end_days,
                   payout_days, period_i, emitted, migrated_count, skipped_count, runs>>

\* line 363, 367: `continue` of the department loop
continue_departments(idx) == idx + 1

\* `return` in the place of that `continue`: the department loop is left
return_on_missing_days(idx) == Len(departments) + 1

\* line 376: `continue` after a department without start or end days
after_missing_days(idx) == idx + 1

\* lines 344-389: one department up to its period loop
MigDepartment ==
    /\ mig_pc = "dept"
    /\ LET dept == departments[dept_idx]
           dept_id == dept.id
           sd == parse_days_string(dept.fields.pay_period_start_days)
           ed == parse_days_string(dept.fields.pay_period_end_days)
           pd == parse_days_string(dept.fields.payout_days)
       IN IF dept_id \in DOMAIN existing_dept_templates
          THEN /\ skipped_count' =
                      skipped_count + Len(existing_dept_templates[dept_id])
               /\ LoopTo(continue_departments(dept_idx))
               /\ UNCHANGED <<start_days, end_days, payout_days, period_i>>
          ELSE IF Falsy(dept.fields.pay_period_type)
          THEN /\ LoopTo(continue_departments(dept_idx))
               /\ UNCHANGED <<start_days, end_days, payout_days, period_i,
                              skipped_count>>
          ELSE /\ start_days' = sd
               /\ end_days' = ed
               /\ payout_days' = pd
               /\ UNCHANGED skipped_count
               /\ IF missing_days(sd, ed)
                  THEN LoopTo(after_missing_days(dept_idx)) /\ UNCHANGED period_i
                  ELSE IF period_count(sd, ed) = 0
                  THEN LoopTo(dept_idx + 1) /\ UNCHANGED period_i
                  ELSE /\ period_i' = 0
                       /\ mig_pc' = "period"
                       /\ UNCHANGED <<dept_idx, mig_result>>
    /\ UNCHANGED <<parseVars, resVars, instVars, outVars, relVars, aggVars, storeVars, departments, existing_dept_templates,
                   emitted, migrated_count, runs, failures, failed_call>>

\* lines 391-509: one period of the department: its record is resolved and
\* create_record is called; a failed creation is reported and the loop goes on
MigPeriod ==
    /\ mig_pc = "period"
    /\ LET dept_id == departments[dept_idx].id
           record_data == record_data_for(dept_id, start_days, end_days,
                                          payout_days, period_i)
       IN IF resolve_end_day(start_days, end_days, period_i) = NoEndDay
          THEN UNCHANGED <<emitted, templates_table, migrated_count, failures,
                           failed_call>>
          ELSE /\ emitted' = Append(emitted, record_data)
               /\ \/ /\ templates_table' = Append(templates_table, record_data)
                     /\ migrated_count' = migrated_count + 1
                     /\ UNCHANGED <<failures, failed_call>>
                  \/ /\ MayFail
                     /\ failures' = failures + 1
                     /\ failed_call' = <<mig_pc>>
                     /\ UNCHANGED <<templates_table, migrated_count>>
    /\ IF period_i + 1 < period_count(start_days, end_days)
       THEN period_i' = period_i + 1 /\ UNCHANGED <<mig_pc, dept_idx, mig_result>>
       ELSE LoopTo(dept_idx + 1) /\ UNCHANGED period_i
    /\ UNCHANGED <<parseVars, resVars, instVars, outVars, relVars, aggVars, departments_table, templates_table_exists,
                   link_as_list, departments,
                   existing_dept_templates, start_days, end_days, payout_days,
                   skipped_count, runs>>

\* the script is run again against the same store
MigRerun ==
    /\ mig_pc = "done"
    /\ runs < MaxRuns
    /\ runs' = runs + 1
    /\ mig_pc' = "start"
    /\ MigLocalsResetNext
    /\ UNCHANGED <<parseVars, resVars, instVars, outVars, relVars, aggVars, storeVars, failures>>

\* fix_template_data.py, lines 95-103: the template is linked to the
\* department, whether its department_id is listed as a list or as a bare id
fix_is_linked(template, department_id) ==
    LET dept_field == template.fields.department_id
    IN IF dept_field.is_list
       THEN \E j \in 1..Len(dept_field.value) : dept_field.value[j] = department_id
       ELSE dept_field.value = department_id

\* lines 123-131: the days period 1 and period 2 are to have
expected_days(period_num) ==
    IF period_num = 1 THEN [start_day |-> 11, end_day |-> 25]
    ELSE [start_day |-> 26, end_day |-> 10]

\* lines 114-145: the positions of the templates to update, among those at
\* the positions linked
fixes_of(table, linked) ==
    {k \in linked :
        /\ table[k].period_number \in {1, 2}
        /\ \/ table[k].start_day # expected_days(table[k].period_number).start_day
           \/ table[k].end_day # expected_days(table[k].period_number).end_day}

\* main() of fix_template_data.py, run between two runs of the migration:
\* the two templates of the first department listed are given the days
\* 11-25 and 26-10. It returns when a listing fails or when that department
\* has not exactly two templates, and goes on after an update that fails.
\* The order of the updates (by period number) does not show in the store.
FixTemplateData ==
    /\ mig_pc = "done"
    /\ \/ /\ MayFail
          /\ failures' = failures + 1
          /\ UNCHANGED templates_table
       \/ LET department_id == departments_table[1].id
              linked == {k \in 1..Len(templates_table) :
                            fix_is_linked(Listed(templates_table[k], link_as_list),
                                          department_id)}
              fixes == fixes_of(templates_table, linked)
          IN IF ~templates_table_exists \/ departments_table = <<>>
                \/ Cardinality(linked) # 2
             THEN UNCHANGED <<templates_table, failures>>
             ELSE \E failed \in SUBSET fixes :
                      /\ Cardinality(failed) <= MaxFailures - failures
                      /\ failures' = failures + Cardinality(failed)
                      /\ templates_table' =
                             [k \in 1..Len(templates_table) |->
                                 IF k \in fixes \ failed
                                 THEN [templates_table[k] EXCEPT
                                          !.start_day = expected_days(
                                              templates_table[k].period_number).start_day,
                                          !.end_day = expected_days(
                                              templates_table[k].period_number).end_day]
                                 ELSE templates_table[k]]
    /\ UNCHANGED <<parseVars, resVars, instVars, outVars, relVars, aggVars,
                   departments_table, templates_table_exists, link_as_list,
                   mig_pc, departments, existing_dept_templates, dept_idx,
                   start_days, end_days, payout_days, period_i, emitted,
                   migrated_count, skipped_count, mig_result, runs, failed_call>>

NextMigrate ==
    \/ MigProvision
    \/ MigFetchDepartments
    \/ MigFetchStructure
    \/ MigCheckExisting
    \/ MigDepartment
    \/ MigPeriod
    \/ MigRerun
    \/ FixTemplateData

SpecMigrate == InitMigrate /\ [][NextMigrate]_vars

(***************************************************************************)
(* The period loop of main(), applied to the parsed lists of a department  *)
(* that has start and end days (lines 374-376 let no other reach it)       *)
(***************************************************************************)
InitResolve ==
    /\ ParseIdle
    /\ MigIdle
    /\ InstIdle
    /\ RelIdle
    /\ AggIdle
    /\ OutIdle
    /\ res_start_days \in ListsUpTo(ResolverDays, MaxDays) \ {<<>>}
    /\ res_end_days \in ListsUpTo(ResolverDays, MaxDays) \ {<<>>}
    /\ res_payout_days \in ListsUpTo(PayoutValues, MaxDays)
    /\ res_i = 0
    /\ res_templates = <<>>
    /\ res_pc = "loop"

\* lines 391-500: one pass of `for i in range(period_count)`
ResolvePeriod ==
    /\ res_pc = "loop"
    /\ res_i < period_count(res_start_days, res_end_days)
    /\ res_templates' =
           IF resolve_end_day(res_start_days, res_end_days, res_i) = NoEndDay
           THEN res_templates
           ELSE Append(res_templates,
                       record_data_for(1, res_start_days, res_end_days,
                                       res_payout_days, res_i))
    /\ IF res_i + 1 < period_count(res_start_days, res_end_days)
       THEN res_i' = res_i + 1 /\ UNCHANGED res_pc
       ELSE res_pc' = "done" /\ UNCHANGED res_i
    /\ UNCHANGED <<res_start_days, res_end_days, res_payout_days, parseVars,
                   storeVars, migVars, instVars, outVars, relVars, aggVars>>

NextResolve == ResolvePeriod

SpecResolve == InitResolve /\ [][NextResolve]_vars

(***************************************************************************)
(* The instantiator, applied to one template and one anchor month          *)
(***************************************************************************)
InitInstantiate ==
    /\ ParseIdle
    /\ MigIdle
    /\ ResIdle
    /\ RelIdle
    /\ AggIdle
    /\ OutIdle
    /\ tpl \in Templates
    /\ anchor \in AnchorYears \X (1..12)
    /\ pay_period = None
    /\ inst_pc = "call"

Instantiate ==
    /\ inst_pc = "call"
    /\ pay_period' = instantiate(tpl, anchor[1], anchor[2])
    /\ inst_pc' = "done"
    /\ UNCHANGED <<tpl, anchor, parseVars, storeVars, migVars, resVars, relVars,
                   aggVars, outVars>>

NextInstantiate == Instantiate

SpecInstantiate == InitInstantiate /\ [][NextInstantiate]_vars

(***************************************************************************)
(* The classifier: main() of debug_pay_periods.py                          *)
(***************************************************************************)
\* how the first listed record names itself and its department: an id and
\* a list of one department; no id; an id with a byte the store could not
\* decode; a department given as a text that holds a lone surrogate
PeriodIdentities ==
    {[id |-> PeriodIdText(1), department_id |-> ListLink(<<<<"d", "\\ud800">>>>)],
     [id |-> None, department_id |-> AbsentLink],
     [id |-> PeriodIdText(1) \o <<"\\udc80">>,
      department_id |-> ScalarLink(<<"d", "1">>)],
     [id |-> PeriodIdText(1), department_id |-> ScalarLink(<<"d", "\\ud800">>)]}

InitRelevance ==
    /\ ParseIdle
    /\ AggIdle
    /\ MigIdle
    /\ ResIdle
    /\ InstIdle
    /\ stdout_errors \in StdoutErrors
    /\ raised = NoException
    /\ \E d \in RelDates, t \in TimesOfDay :
           today = <<d[1], d[2], d[3], t[1], t[2], t[3]>>
    /\ \E f \in {g \in [PeriodIds -> DateFieldValues \X DateFieldValues] :
                      \A k \in PeriodIds \ {1} :
                          /\ g[k][1] \in LaterDateFieldValues
                          /\ g[k][2] \in LaterDateFieldValues} :
       \E first \in PeriodIdentities :
           pay_periods_table =
               [k \in PeriodIds |->
                    [id |-> IF k = 1 THEN first.id ELSE PeriodIdText(k),
                     fields |-> [start_date |-> f[k][1],
                                 end_date |-> f[k][2],
                                 department_id |->
                                     IF k = 1 THEN first.department_id
                                     ELSE AbsentLink]]]
    /\ pay_periods = <<>>
    /\ current_periods = <<>>
    /\ upcoming_periods = <<>>
    /\ past_periods = <<>>
    /\ shown_period = None
    /\ no_current_warning = FALSE
    /\ rel_pc = "fetch"

\* the positions of the listing whose record makes parse_date raise
failing_records(records, errors) ==
    {k \in 1..Len(records) : analyse_raises(records[k], errors)}

\* lines 103-138: the listing, then every record analysed in the order of
\* the listing; a failed listing ends main(), and so does a date text that
\* is reported at line 69 and cannot be written: the periods analysed
\* before it stay in the list
RelAnalyse ==
    /\ rel_pc = "fetch"
    /\ \/ \E failing \in {failing_records(pay_periods_table, stdout_errors)} :
          \E analysed \in {IF failing = {} THEN Len(pay_periods_table)
                           ELSE SetMin(failing) - 1} :
             /\ pay_periods' = [k \in 1..analysed |->
                                    analyse(pay_periods_table[k], today,
                                            stdout_errors)]
             /\ IF failing = {}
                THEN rel_pc' = "report" /\ UNCHANGED raised
                ELSE /\ rel_pc' = "raised"
                     /\ raised' = Exception("UnicodeEncodeError", 69)
       \/ /\ rel_pc' = "done"
          /\ UNCHANGED <<pay_periods, raised>>
    /\ UNCHANGED <<today, pay_periods_table, current_periods, upcoming_periods,
                   past_periods, shown_period, no_current_warning, parseVars,
                   storeVars, migVars, resVars, instVars, aggVars,
                   stdout_errors>>

\* line 151: the department column is 'None' for a value that is false, the
\* repr of a list, which escapes every surrogate, and the first 30
\* characters of a text
department_printable(department_id, errors) ==
    \/ ~link_truthy(department_id)
    \/ department_id.kind = "list"
    \/ Writable(SubSeq(department_id.ids[1], 1,
                       MinNat(30, Len(department_id.ids[1]))), errors)

\* line 154: the exception the row of a period raises, "" when it is
\* written: None has no format of width 40, and the id and the department
\* are written as they are
row_raises(pp, errors) ==
    IF pp.id = None THEN "TypeError"
    ELSE IF Writable(pp.id, errors)
                /\ department_printable(pp.department_id, errors)
    THEN ""
    ELSE "UnicodeEncodeError"

\* lines 150-154: the rows of the first 20 periods that raise
failing_rows(pps, errors) ==
    {k \in 1..MinNat(20, Len(pps)) : row_raises(pps[k], errors) # ""}

\* lines 174 and 184: the date texts of the period shown are printed
dates_printable(pp, errors) ==
    Printable(pp.start_date_str, errors) /\ Printable(pp.end_date_str, errors)

\* lines 173-174 and 183-184: the line at which the report of the period
\* shown raises UnicodeEncodeError, 0 when it is written
shown_raises_at(pp, errors, id_line) ==
    IF ~Printable(pp.id, errors) THEN id_line
    ELSE IF ~dates_printable(pp, errors) THEN id_line + 1
    ELSE 0

\* lines 140-186: the periods sorted newest first and listed, split by
\* relevance, and the current period (else the most recent past one)
\* reported; main() ends at the first row that cannot be written, and at an
\* id or a date text of the period shown that cannot
RelReport ==
    /\ rel_pc = "report"
    /\ \E sorted \in {sort_newest_first(pay_periods)} :
       \E failing \in {failing_rows(sorted, stdout_errors)} :
       \E current \in {WithRelevance(sorted, "current")} :
       \E past \in {WithRelevance(sorted, "past")} :
       \E shown \in {IF current # <<>> THEN <<current[1]>>
                     ELSE IF past # <<>> THEN <<past[1]>> ELSE <<>>} :
       \E line \in {IF shown = <<>> THEN 0
                    ELSE shown_raises_at(shown[1], stdout_errors,
                                         IF current # <<>> THEN 173 ELSE 183)} :
          /\ pay_periods' = sorted
          /\ IF failing # {}
             THEN /\ rel_pc' = "raised"
                  /\ raised' = Exception(row_raises(sorted[SetMin(failing)],
                                                    stdout_errors), 154)
                  /\ UNCHANGED <<current_periods, upcoming_periods,
                                 past_periods, shown_period, no_current_warning>>
             ELSE /\ current_periods' = current
                  /\ upcoming_periods' = WithRelevance(sorted, "upcoming")
                  /\ past_periods' = past
                  /\ shown_period' = IF shown = <<>> THEN None ELSE shown[1]
                  /\ no_current_warning' = (current = <<>>)
                  /\ IF line = 0
                     THEN rel_pc' = "done" /\ UNCHANGED raised
                     ELSE /\ rel_pc' = "raised"
                          /\ raised' = Exception("UnicodeEncodeError", line)
    /\ UNCHANGED <<today, pay_periods_table, parseVars, storeVars, migVars,
                   resVars, instVars, aggVars, stdout_errors>>

NextRelevance == RelAnalyse \/ RelReport

SpecRelevance == InitRelevance /\ [][NextRelevance]_vars

(***************************************************************************)
(* The record store of the aggregation scripts                             *)
(***************************************************************************)
InitAggStore ==
    /\ pay_period_record \in PayPeriodRecords
    /\ time_cards_table \in {<<>>, <<Card(1)>>}
    /\ \E n \in 1..MaxPages :
           \E f \in [1..n -> 0..Len(PunchKinds)] :
               punch_pages = [k \in 1..n |-> PageOf(f[k])]
    /\ endless_pages \in BOOLEAN
    /\ store_failures = 0

\* the response to a listing of the punches from offset on: the pages come
\* in order; a store whose pages all report hasMore goes on giving its last
\* page
page_response(offset) ==
    LET n == offset \div page_limit + 1
    IN IF n <= Len(punch_pages)
       THEN [records |-> punch_pages[n],
             hasMore |-> n < Len(punch_pages) \/ endless_pages]
       ELSE IF endless_pages
       THEN [records |-> punch_pages[Len(punch_pages)], hasMore |-> TRUE]
       ELSE [records |-> <<>>, hasMore |-> FALSE]

\* the same page again
same_offset(offset) == offset

\* `offset += limit` of both paging loops
next_offset(offset) == offset + page_limit

\* a listing of the Punches table as query_fillout is called for it: with
\* the date filters of the paging loops, or without filters
Request(offset, limit, filters) ==
    [offset |-> offset, limit |-> limit, filters |-> filters]

\* a store call of the aggregation may fail while the failure budget lasts
StoreMayFail == store_failures < MaxFailures

(***************************************************************************)
(* calculate_pay_period_totals of test_pay_period_totals.py                *)
(***************************************************************************)
InitTotals ==
    /\ ParseIdle
    /\ MigIdle
    /\ ResIdle
    /\ InstIdle
    /\ RelIdle
    /\ InitAggStore
    /\ employees_table = {}
    /\ stdout_errors \in StdoutErrors
    /\ raised = NoException
    /\ tot_pc = "time_cards"
    /\ TotLocalsReset
    /\ hrs_pc = "idle"
    /\ HrsLocalsReset

\* lines 76-77: the id of the pay period, then its dates, are printed as
\* they are; the line that raises UnicodeEncodeError, 0 when both are
\* written
tot_period_raises_at(record, errors) ==
    IF ~Printable(record.id, errors) THEN 76
    ELSE IF Printable(record.fields.start_date, errors)
                /\ Printable(record.fields.end_date, errors)
    THEN 0
    ELSE 77

\* lines 74-94: the pay period announced, then its time cards; a failed
\* listing returns a dict without punchCount
TotTimeCards ==
    /\ tot_pc = "time_cards"
    /\ \E line \in {tot_period_raises_at(pay_period_record, stdout_errors)} :
          IF line # 0
          THEN /\ tot_pc' = "raised"
               /\ raised' = Exception("UnicodeEncodeError", line)
               /\ UNCHANGED <<tot_time_card_ids, tot_time_card_count,
                              tot_result, store_failures>>
          ELSE /\ UNCHANGED raised
               /\ \/ /\ tot_time_card_ids' =
                            {time_cards_table[k] : k \in 1..Len(time_cards_table)}
                     /\ tot_time_card_count' = Len(time_cards_table)
                     /\ tot_pc' = "page"
                     /\ UNCHANGED <<tot_result, store_failures>>
                  \/ /\ StoreMayFail
                     /\ store_failures' = store_failures + 1
                     /\ tot_result' = [totalHours |-> TdZero, timeCardCount |-> 0]
                     /\ tot_pc' = "done"
                     /\ UNCHANGED <<tot_time_card_ids, tot_time_card_count>>
    /\ UNCHANGED <<tot_offset, tot_has_more, tot_all_punches, tot_requests,
                   tot_page_failed, tot_limit_reported, tot_filtered_punches,
                   tot_fallback_reported, tot_flagged, pay_period_record,
                   time_cards_table, punch_pages, endless_pages,
                   employees_table, hrsVars, stdout_errors,
                   parseVars, storeVars, migVars, resVars, instVars, relVars>>

\* the punches of the store, in the order of its listing
RECURSIVE records_of(_)
records_of(pages) ==
    IF pages = <<>> THEN <<>> ELSE Head(pages) \o records_of(Tail(pages))

\* line 128: query_fillout(PUNCHES_TABLE_ID, limit=5), when it answers
trial_punches ==
    SubSeq(records_of(punch_pages), 1, MinNat(5, Len(records_of(punch_pages))))

\* lines 133-140: the trial listing prints what its first punch holds under
\* 'punch_in_time', 'Punch In Time', 'punch_in' and 'in_time'
trial_printable(test_punches, errors) ==
    \/ test_punches = <<>>
    \/ /\ Printable(test_punches[1].fields.punch_in_time, errors)
       /\ Printable(test_punches[1].fields["Punch In Time"], errors)
       /\ Printable(test_punches[1].fields.punch_in, errors)
       /\ Printable(test_punches[1].fields.in_time, errors)

\* lines 111-158: one pass of `while has_more and offset < 10000`; a failed
\* request leaves the loop, after a trial listing without filters (line
\* 128) when it was the first request
TotPage ==
    /\ tot_pc = "page"
    /\ \/ LET response == page_response(tot_offset)
              all == tot_all_punches \o response.records
              offset == next_offset(tot_offset)
              at_limit == Len(all) >= safety_limit
          IN /\ tot_requests' =
                    Append(tot_requests, Request(tot_offset, page_limit, TRUE))
             /\ tot_all_punches' = all
             /\ tot_has_more' = response.hasMore
             /\ tot_offset' = offset
             /\ tot_limit_reported' = at_limit
             /\ tot_pc' = IF ~at_limit /\ response.hasMore /\ offset < safety_limit
                          THEN "page" ELSE "aggregate"
             /\ UNCHANGED <<tot_page_failed, store_failures, raised>>
       \/ /\ StoreMayFail
          /\ tot_page_failed' = TRUE
          /\ UNCHANGED <<tot_all_punches, tot_has_more, tot_offset,
                         tot_limit_reported>>
          /\ IF tot_offset = 0
             THEN \* lines 126-143: the trial listing answers, or fails too
                  /\ tot_requests' =
                         tot_requests \o <<Request(tot_offset, page_limit, TRUE),
                                           Request(0, 5, FALSE)>>
                  /\ \/ /\ store_failures' = store_failures + 1
                        /\ IF trial_printable(trial_punches, stdout_errors)
                           THEN tot_pc' = "aggregate" /\ UNCHANGED raised
                           ELSE /\ tot_pc' = "raised"
                                /\ raised' = Exception("UnicodeEncodeError", 140)
                     \* the trial listing fails as well, the last call made
                     \/ /\ store_failures' = store_failures + 2
                        /\ tot_pc' = "aggregate"
                        /\ UNCHANGED raised
             ELSE /\ tot_requests' =
                         Append(tot_requests, Request(tot_offset, page_limit, TRUE))
                  /\ store_failures' = store_failures + 1
                  /\ tot_pc' = "aggregate"
                  /\ UNCHANGED raised
    /\ UNCHANGED <<tot_time_card_ids, tot_time_card_count, tot_filtered_punches,
                   tot_fallback_reported, tot_flagged, tot_result,
                   pay_period_record, time_cards_table, punch_pages,
                   endless_pages, employees_table, hrsVars, stdout_errors,
                   parseVars, storeVars, migVars, resVars, instVars, relVars>>

\* lines 160-223: the linkage filter, the hours of the punches used, the
\* rounding and the returned dict
TotAggregate ==
    /\ tot_pc = "aggregate"
    /\ \E linked_punches \in {tot_linked_to(tot_all_punches, tot_time_card_ids)} :
       \E filtered_punches \in {filter_punches(tot_all_punches, tot_time_card_ids,
                                               linked_punches)} :
       \E contributions \in {tot_contributions(filtered_punches)} :
       \E total_hours \in {total_of(contributions)} :
          /\ tot_filtered_punches' = filtered_punches
          /\ tot_fallback_reported' =
                 fallback_printed(tot_time_card_ids, linked_punches)
          /\ tot_flagged' = FlaggedIn(contributions)
          /\ \/ /\ total_hours.kind = "finite"
                /\ \E rounded \in round_2dp(total_hours) :
                       tot_result' = [totalHours |-> rounded,
                                      timeCardCount |-> tot_time_card_count,
                                      punchCount |-> Len(filtered_punches)]
                /\ tot_pc' = "done"
                /\ UNCHANGED raised
             \* round(inf) raises OverflowError, which nothing catches
             \/ /\ total_hours.kind = "inf"
                /\ tot_pc' = "raised"
                /\ raised' = Exception("OverflowError", 215)
                /\ UNCHANGED tot_result
             \* a total of 10^LargeDigits hours or more is returned, or line
             \* 215 raises OverflowError: the run ends with no total held
             \/ /\ total_hours.kind = "large"
                /\ tot_pc' = "beyond"
                /\ UNCHANGED <<tot_result, raised>>
    /\ UNCHANGED <<tot_time_card_ids, tot_time_card_count, tot_offset,
                   tot_has_more, tot_all_punches, tot_requests, tot_page_failed,
                   tot_limit_reported, aggStoreVars, hrsVars, stdout_errors,
                   parseVars, storeVars, migVars, resVars, instVars, relVars>>

NextTotals == TotTimeCards \/ TotPage \/ TotAggregate

SpecTotals == InitTotals /\ [][NextTotals]_vars

(***************************************************************************)
(* main() of test_employee_hours.py                                        *)
(***************************************************************************)
InitHours ==
    /\ ParseIdle
    /\ MigIdle
    /\ ResIdle
    /\ InstIdle
    /\ RelIdle
    /\ InitAggStore
    /\ employees_table \in EmployeeTables
    /\ stdout_errors \in StdoutErrors
    /\ raised = NoException
    /\ tot_pc = "idle"
    /\ TotLocalsReset
    /\ hrs_pc = "time_cards"
    /\ HrsLocalsReset

\* line 111: the dates of the pay period are printed as they are
hrs_period_printable(record, errors) ==
    /\ Printable(record.fields.start_date, errors)
    /\ Printable(record.fields.end_date, errors)

\* lines 102-129: the pay period, its dates printed, and its time cards;
\* main() returns when either call fails
HrsTimeCards ==
    /\ hrs_pc = "time_cards"
    /\ \/ \* lines 104-107: get_record fails
          /\ StoreMayFail
          /\ store_failures' = store_failures + 1
          /\ hrs_pc' = "returned"
          /\ UNCHANGED <<hrs_time_card_ids, raised>>
       \/ IF ~hrs_period_printable(pay_period_record, stdout_errors)
          THEN /\ hrs_pc' = "raised"
               /\ raised' = Exception("UnicodeEncodeError", 111)
               /\ UNCHANGED <<hrs_time_card_ids, store_failures>>
          ELSE /\ UNCHANGED raised
               /\ \/ /\ hrs_time_card_ids' =
                            {time_cards_table[k] : k \in 1..Len(time_cards_table)}
                     /\ hrs_pc' = "page"
                     /\ UNCHANGED store_failures
                  \* lines 121-123: the listing of the time cards fails
                  \/ /\ StoreMayFail
                     /\ store_failures' = store_failures + 1
                     /\ hrs_pc' = "returned"
                     /\ UNCHANGED hrs_time_card_ids
    /\ UNCHANGED <<hrs_offset, hrs_all_punches, hrs_requests, hrs_page_failed,
                   hrs_filtered_punches, hrs_fallback_reported, hrs_flagged,
                   hrs_employee_hours, pay_period_record, time_cards_table,
                   punch_pages, endless_pages, employees_table, totVars,
                   stdout_errors,
                   parseVars, storeVars, migVars, resVars, instVars, relVars>>

\* lines 137-163: one pass of `while True`; a failed request, an empty page
\* and a page without hasMore leave the loop
HrsPage ==
    /\ hrs_pc = "page"
    /\ Len(hrs_requests) < MaxRequests
    /\ hrs_requests' = Append(hrs_requests, Request(hrs_offset, page_limit, TRUE))
    /\ \/ /\ UNCHANGED <<hrs_page_failed, store_failures>>
          /\ LET response == page_response(hrs_offset)
             IN IF response.records = <<>>
                THEN /\ hrs_pc' = "aggregate"
                     /\ UNCHANGED <<hrs_all_punches, hrs_offset>>
                ELSE /\ hrs_all_punches' = hrs_all_punches \o response.records
                     /\ IF response.hasMore
                        THEN hrs_offset' = next_offset(hrs_offset) /\ hrs_pc' = "page"
                        ELSE hrs_pc' = "aggregate" /\ UNCHANGED hrs_offset
       \/ /\ StoreMayFail
          /\ store_failures' = store_failures + 1
          /\ hrs_page_failed' = TRUE
          /\ hrs_pc' = "aggregate"
          /\ UNCHANGED <<hrs_all_punches, hrs_offset>>
    /\ UNCHANGED <<hrs_time_card_ids, hrs_filtered_punches,
                   hrs_fallback_reported, hrs_flagged, hrs_employee_hours,
                   pay_period_record, time_cards_table, punch_pages,
                   endless_pages, employees_table, totVars, outVars,
                   parseVars, storeVars, migVars, resVars, instVars, relVars>>

\* lines 204-216: the employee of a punch, None when it has none
punch_employee(punch) == unwrap_link(punch.fields.employee_id)

\* lines 209-210: the punches that have an employee
with_employee(punches) ==
    SelectSeq(punches, LAMBDA p : ~Falsy(punch_employee(p)))

\* the punches of one employee that are punched out
closed_punches_of(punches, emp_id) ==
    SelectSeq(punches, LAMBDA p : /\ punch_employee(p) = emp_id
                                  /\ ~NoText(p.fields.punch_out_time))

\* lines 201-216: the punches of one employee, in the order fetched
punches_of(punches, emp_id) ==
    SelectSeq(punches, LAMBDA p : punch_employee(p) = emp_id)

\* lines 241-262: the summary of one employee
summary_of(punches, emp_id, employees) ==
    [employeeId |-> emp_id,
     employeeName |-> employee_name(emp_id, employees),
     employeeEmail |-> employee_email(emp_id, employees),
     totalHours |-> SumHours(hrs_contributions(punches_of(punches, emp_id))),
     punchCount |-> Len(punches_of(punches, emp_id))]

\* lines 168-175: the sample print writes the time card, the employee and
\* the timestamps of the first punch as they are; the line that raises
\* UnicodeEncodeError, 0 when all is written
sample_raises_at(all_punches, errors) ==
    IF all_punches = <<>> THEN 0
    ELSE LET fields == all_punches[1].fields
         IN IF ~link_printable(fields.time_card_id, errors) THEN 172
            ELSE IF ~link_printable(fields.employee_id, errors) THEN 173
            ELSE IF ~Printable(fields.punch_in_time, errors) THEN 174
            ELSE IF ~Printable(fields.punch_out_time, errors) THEN 175
            ELSE 0

\* lines 168-175 are passed without an exception
sample_printable(all_punches, errors) == sample_raises_at(all_punches, errors) = 0

\* lines 275-277: the row of every summary writes the name and the email
\* ('' for none) as they are
results_printable(employee_hours, errors) ==
    \A k \in 1..Len(employee_hours) :
        /\ Writable(employee_hours[k].employeeName, errors)
        /\ Writable(text_or(employee_hours[k].employeeEmail, <<>>), errors)

\* lines 222-235: the Employees listing is made for a non-empty set of ids;
\* it answers with the records of these ids, or fails and leaves no names
employees_listings(employee_ids) ==
    {[failed |-> FALSE,
      employees |-> {emp \in employees_table : emp.id \in employee_ids}]}
        \cup (IF employee_ids # {} /\ StoreMayFail
              THEN {[failed |-> TRUE, employees |-> {}]} ELSE {})

\* lines 165-284: the sample print, the linkage filter, the punches grouped
\* by employee, the names, the totals, the summaries sorted by name
\* (employees of one name in the order the set of ids gives them) and
\* their rows printed
HrsAggregate ==
    /\ hrs_pc = "aggregate"
    /\ \E sample_line \in {sample_raises_at(hrs_all_punches, stdout_errors)} :
       IF sample_line # 0
       THEN /\ hrs_pc' = "raised"
            /\ raised' = Exception("UnicodeEncodeError", sample_line)
            /\ UNCHANGED <<hrs_filtered_punches, hrs_fallback_reported,
                           hrs_flagged, hrs_employee_hours, store_failures>>
       ELSE \E linked_punches \in {hrs_linked_to(hrs_all_punches, hrs_time_card_ids)} :
            \E filtered_punches \in {filter_punches(hrs_all_punches, hrs_time_card_ids,
                                                    linked_punches)} :
            \E employee_ids \in {{punch_employee(filtered_punches[k]) :
                                      k \in 1..Len(filtered_punches)}
                                     \ {None, <<>>}} :
            \E listing \in employees_listings(employee_ids) :
            LET n == Cardinality(employee_ids)
                orders == {f \in [1..n -> employee_ids] :
                              /\ \A a, b \in 1..n : a # b => f[a] # f[b]
                              /\ \A a, b \in 1..n : a < b =>
                                     NameRank(employee_name(f[a], listing.employees))
                                         <= NameRank(employee_name(f[b], listing.employees))}
            IN /\ hrs_filtered_punches' = filtered_punches
               /\ hrs_fallback_reported' =
                      fallback_printed(hrs_time_card_ids, linked_punches)
               /\ hrs_flagged' = FlaggedIn(hrs_contributions(
                                     with_employee(filtered_punches)))
               /\ store_failures' = store_failures + (IF listing.failed THEN 1 ELSE 0)
               /\ \E f \in orders :
                  \E employee_hours \in {[k \in 1..n |->
                                             summary_of(filtered_punches, f[k],
                                                        listing.employees)]} :
                      /\ hrs_employee_hours' = employee_hours
                      /\ IF results_printable(employee_hours, stdout_errors)
                         THEN hrs_pc' = "done" /\ UNCHANGED raised
                         ELSE /\ hrs_pc' = "raised"
                              /\ raised' = Exception("UnicodeEncodeError", 277)
    /\ UNCHANGED <<hrs_time_card_ids, hrs_offset, hrs_all_punches, hrs_requests,
                   hrs_page_failed, pay_period_record, time_cards_table,
                   punch_pages, endless_pages, employees_table, totVars,
                   stdout_errors,
                   parseVars, storeVars, migVars, resVars, instVars, relVars>>

NextHours == HrsTimeCards \/ HrsPage \/ HrsAggregate

SpecHours == InitHours /\ [][NextHours]_vars

(***************************************************************************)
(* Either aggregator, run against the store                                *)
(***************************************************************************)
InitAggregators == InitTotals \/ InitHours

NextAggregators == NextTotals \/ NextHours

SpecAggregators == InitAggregators /\ [][NextAggregators]_vars

(***************************************************************************)
(* Claims: the template migration (SpecMigrate)                            *)
(***************************************************************************)
\* the records this run handed to create_record for a department
EmittedFor(dept_id) ==
    SelectSeq(emitted, LAMBDA r : r.department_id = <<dept_id>>)

\* the department loop of this run is past position d
Visited(d) ==
    /\ mig_pc \in {"dept", "period", "done"}
    /\ d \in 1..Len(departments)
    /\ d < dept_idx

StartsOf(d) == parse_days_string(departments[d].fields.pay_period_start_days)
EndsOf(d) == parse_days_string(departments[d].fields.pay_period_end_days)
CountOf(d) == MinNat(Len(StartsOf(d)), Len(EndsOf(d)))

\* the department reaches the resolver: the listing showed no template of
\* it and it has a pay period type
Resolved(d) ==
    /\ departments[d].id \notin DOMAIN existing_dept_templates
    /\ ~Falsy(departments[d].fields.pay_period_type)

NumberedInOrder(recs) == \A k \in 1..Len(recs) : recs[k].period_number = k

\* C1: for every department the resolver emits min(len(startDays),
\* len(endDays)) templates, numbered 1..count in emission order.
C1_EveryDepartmentGetsMinCount ==
    \A d \in 1..Len(departments) :
        Visited(d) =>
            /\ Len(EmittedFor(departments[d].id)) = CountOf(d)
            /\ NumberedInOrder(EmittedFor(departments[d].id))

\* C1 as amended: that holds of every department that reaches the resolver
\* (no template of it listed, pay period type set); any other department
\* gets no template.
C1_ResolvedDepartmentGetsMinCount ==
    \A d \in 1..Len(departments) :
        Visited(d) =>
            IF Resolved(d)
            THEN /\ Len(EmittedFor(departments[d].id)) = CountOf(d)
                 /\ NumberedInOrder(EmittedFor(departments[d].id))
            ELSE EmittedFor(departments[d].id) = <<>>

C1_Witness ==
    /\ mig_pc = "done"
    /\ \E d \in 1..Len(departments) :
           Visited(d) /\ Resolved(d) /\ Len(EmittedFor(departments[d].id)) = 2
    /\ \E d \in 1..Len(departments) :
           Visited(d) /\ ~Resolved(d) /\ CountOf(d) = 2

DaysOfMonth == 1..31

\* day is within [start_day..end_day], wrapping when end_day < start_day
Covers(rec, day) ==
    IF rec.end_day >= rec.start_day
    THEN rec.start_day <= day /\ day <= rec.end_day
    ELSE day >= rec.start_day \/ day <= rec.end_day

PartitionsMonth(recs) ==
    \A day \in DaysOfMonth :
        Cardinality({k \in 1..Len(recs) : Covers(recs[k], day)}) = 1

\* C2: the day ranges of the templates emitted for one department
\* partition the month: every day is in exactly one of them.
C2_CyclePartitionsMonth ==
    \A d \in 1..Len(departments) :
        (Visited(d) /\ EmittedFor(departments[d].id) # <<>>) =>
            PartitionsMonth(EmittedFor(departments[d].id))

C17_FailedCallIsFatal ==
    [][failed_call # None => Len(templates_table') = Len(templates_table)]_vars

\* C27: a linked-record field read gives the same outcome for a scalar id
\* and for a single-element collection: whichever way the listing gives
\* department_id, every template stored before this run is found under its
\* department.
C27_ScalarReadLikeCollection ==
    (mig_pc \in {"dept", "period", "done"} /\ failed_call = None) =>
        \A k \in 1..(Len(templates_table) - migrated_count) :
            templates_table[k].department_id[1] \in DOMAIN existing_dept_templates

\* the stored templates of a department
StoredFor(dept_id) ==
    SelectSeq(templates_table, LAMBDA r : r.department_id = <<dept_id>>)

\* C28: after any number of runs, failed store calls included, the stored
\* templates of every department have the period numbers 1..N, each once.
C28_StoredNumbersOneToN ==
    mig_pc = "done" =>
        \A d \in 1..Len(departments_table) :
            LET recs == StoredFor(departments_table[d].id)
            IN \A n \in 1..Len(recs) :
                   Cardinality({k \in 1..Len(recs) : recs[k].period_number = n}) = 1

(***************************************************************************)
(* Claims: the period loop (SpecResolve)                                   *)
(***************************************************************************)
\* the 0-based period index a template was built for
IdxOf(t) == t.period_number - 1

\* the positions of the end days that are not before day
NotBefore(ed, day) == {j \in 1..Len(ed) : ed[j] >= day}

\* C18: the end day of period i is endDays[i] when that is not before the
\* start day, else the first end day (left to right) not before it, else
\* the smallest end day; 11,26 with 10,25 gives (11,25) and (26,10).
C18_EndDayPairing ==
    /\ \A k \in 1..Len(res_templates) :
           LET t == res_templates[k]
               start == res_start_days[IdxOf(t) + 1]
               same == res_end_days[IdxOf(t) + 1]
               later == NotBefore(res_end_days, start)
           IN /\ k = t.period_number
              /\ t.start_day = start
              /\ same >= start => t.end_day = same
              /\ (same < start /\ later # {}) =>
                     \E j \in later : /\ t.end_day = res_end_days[j]
                                       /\ \A m \in later : j <= m
              /\ later = {} =>
                     /\ \E j \in 1..Len(res_end_days) : t.end_day = res_end_days[j]
                     /\ \A j \in 1..Len(res_end_days) : t.end_day <= res_end_days[j]
    /\ (res_pc = "done" /\ res_start_days = <<11, 26>> /\ res_end_days = <<10, 25>>) =>
           /\ Len(res_templates) = 2
           /\ <<res_templates[1].start_day, res_templates[1].end_day>> = <<11, 25>>
           /\ <<res_templates[2].start_day, res_templates[2].end_day>> = <<26, 10>>

\* the scan with two end days not before the start day: 10 is before 11,
\* and of 26 and 25 the first one is taken, which is neither the smallest
\* nor the last of them
C18_Witness ==
    /\ res_pc = "done"
    /\ res_start_days = <<11, 11, 26>>
    /\ res_end_days = <<10, 26, 25>>
    /\ NotBefore(res_end_days, 11) = {2, 3}
    /\ res_templates[1].end_day = 26
    /\ res_templates[2].end_day = 26
    /\ res_templates[3].end_day = 26

\* the text a payout day value is stored as
StoredPayout(v) == IF v = 1 THEN <<"l", "a", "s", "t">> ELSE IntToStr(v)

\* whether position j (0-based) is a position of list q
InRange(q, j) == 0 <= j /\ j < Len(q)

\* C19: the payout day of period i is payoutDays[len-1-i] when that index is
\* in range, else payoutDays[i] when that one is; 1 is stored as "last" and
\* any other value as its decimal string.  (With neither index in range the
\* period gets its default payout day.)
C19_ReverseThenDirectIndex ==
    \A k \in 1..Len(res_templates) :
        LET t == res_templates[k]
            i == IdxOf(t)
            r == Len(res_payout_days) - 1 - i
        IN IF InRange(res_payout_days, r)
           THEN t.payout_day = StoredPayout(res_payout_days[r + 1])
           ELSE IF InRange(res_payout_days, i)
           THEN t.payout_day = StoredPayout(res_payout_days[i + 1])
           ELSE t.payout_day = IF t.end_day < t.start_day
                               THEN <<"1", "5">> ELSE <<"l", "a", "s", "t">>

C19_Witness ==
    /\ res_pc = "done"
    /\ res_payout_days = <<15, 1>>
    /\ Len(res_templates) = 2
    /\ res_templates[1].payout_day = <<"l", "a", "s", "t">>
    /\ res_templates[2].payout_day = <<"1", "5">>

\* C20: every emitted template has payoutMonthOffset 1 if its end day is
\* before its start day and 0 otherwise, wherever its payout day came from.
C20_OffsetFollowsMonthSpan ==
    \A k \in 1..Len(res_templates) :
        LET t == res_templates[k]
        IN t.payout_month_offset = IF t.end_day < t.start_day THEN 1 ELSE 0

\* a month-spanning template with a payout day read from payoutDays and one
\* with a default payout day
C20_Witness ==
    /\ res_pc = "done"
    /\ Len(res_payout_days) = 1
    /\ Len(res_templates) = 2
    /\ \A k \in 1..2 : /\ res_templates[k].end_day < res_templates[k].start_day
                       /\ res_templates[k].payout_month_offset = 1

\* C21: a period for which payoutDays gives no payout day (payoutDays empty
\* or too short for its index) gets payout day "15" with offset 1 when it
\* spans months and "last" with offset 0 when it does not; no template is
\* emitted without a payout day.
C21_DefaultPayoutPolicy ==
    \A k \in 1..Len(res_templates) :
        LET t == res_templates[k]
        IN /\ t.payout_day # None
           /\ t.payout_day # <<>>
           /\ IdxOf(t) >= Len(res_payout_days) =>
                  IF t.end_day < t.start_day
                  THEN t.payout_day = <<"1", "5">> /\ t.payout_month_offset = 1
                  ELSE t.payout_day = <<"l", "a", "s", "t">>
                           /\ t.payout_month_offset = 0

\* no payout days at all: 11-25 is paid on the last day, 26-10 on the 15th
\* of the next month
C21_Witness ==
    /\ res_pc = "done"
    /\ res_payout_days = <<>>
    /\ Len(res_templates) = 2
    /\ res_templates[1].end_day >= res_templates[1].start_day
    /\ res_templates[1].payout_day = <<"l", "a", "s", "t">>
    /\ res_templates[1].payout_month_offset = 0
    /\ res_templates[2].end_day < res_templates[2].start_day
    /\ res_templates[2].payout_day = <<"1", "5">>
    /\ res_templates[2].payout_month_offset = 1

(***************************************************************************)
(* Claims: the instantiator (SpecInstantiate)                              *)
(***************************************************************************)
\* the month after <<y, m>>, December rolling over to January
FollowingMonth(y, m) == IF m = 12 THEN <<y + 1, 1>> ELSE <<y, m + 1>>

\* the month endDate is to fall in
EndMonthOf(t, y, m) ==
    IF t.end_day >= t.start_day THEN <<y, m>> ELSE FollowingMonth(y, m)

ClampedTo(day, ym) == IF day > DaysIn(ym[1], ym[2]) THEN DaysIn(ym[1], ym[2]) ELSE day

\* the rules for startDate and endDate
DatesFollowRules ==
    LET em == EndMonthOf(tpl, anchor[1], anchor[2])
    IN /\ pay_period.start_date = <<anchor[1], anchor[2], tpl.start_day>>
       /\ pay_period.end_date = <<em[1], em[2], ClampedTo(tpl.end_day, em)>>

IsCalendarDate(d) == ValidYMD(d[1], d[2], d[3])

\* C5: startDate is day startDay of the anchor month, endDate is day endDay
\* of the same or the following month, clamped; for every startDay and
\* endDay in 1..31 and every anchor month both are calendar dates and
\* startDate <= endDate.
C5_AlwaysValidDatePair ==
    inst_pc = "done" =>
        /\ DatesFollowRules
        /\ IsCalendarDate(pay_period.start_date)
        /\ IsCalendarDate(pay_period.end_date)
        /\ TupleLeq(pay_period.start_date, pay_period.end_date)

\* C5 as amended: the rules hold and endDate is a calendar date for every
\* template; startDate is a calendar date and startDate <= endDate for
\* every startDay that the anchor month has.
C5_ValidWhenStartDayExists ==
    inst_pc = "done" =>
        /\ DatesFollowRules
        /\ IsCalendarDate(pay_period.end_date)
        /\ tpl.start_day <= DaysIn(anchor[1], anchor[2]) =>
               /\ IsCalendarDate(pay_period.start_date)
               /\ TupleLeq(pay_period.start_date, pay_period.end_date)

\* a month-spanning period anchored in December with a clamped end elsewhere
C5_Witness ==
    /\ inst_pc = "done"
    /\ anchor = <<2024, 12>>
    /\ tpl.start_day = 31
    /\ tpl.end_day = 30
    /\ pay_period.start_date = <<2024, 12, 31>>
    /\ pay_period.end_date = <<2025, 1, 30>>

\* C6: payoutDate lies payoutMonthOffset months after endDate's month; its
\* day is that month's last day for "last" (Feb 29 in a leap year, Feb 28
\* otherwise), else the literal day clamped to the month's last day.
C6_PayoutDate ==
    inst_pc = "done" =>
        LET e == pay_period.end_date
            pm == IF tpl.payout_month_offset = 0 THEN <<e[1], e[2]>>
                  ELSE FollowingMonth(e[1], e[2])
        IN pay_period.payout_date =
               <<pm[1], pm[2],
                 IF tpl.payout_day = Last THEN DaysIn(pm[1], pm[2])
                 ELSE ClampedTo(ToInt(tpl.payout_day), pm)>>

C6_Witness ==
    /\ inst_pc = "done"
    /\ tpl.payout_day = Last
    /\ tpl.payout_month_offset = 0
    /\ anchor = <<2024, 2>>
    /\ pay_period.payout_date = <<2024, 2, 29>>

\* C7: template (26, 10, "15", offset 1) instantiated for November 2025
\* gives 2025-11-26, 2025-12-10 and payout 2025-12-15.
C7_November2025Example ==
    ( /\ inst_pc = "done"
      /\ anchor = <<2025, 11>>
      /\ tpl = [start_day |-> 26, end_day |-> 10, payout_day |-> <<"1", "5">>,
                payout_month_offset |-> 1] ) =>
        pay_period = [start_date |-> <<2025, 11, 26>>,
                      end_date |-> <<2025, 12, 10>>,
                      payout_date |-> <<2025, 12, 15>>]

\* C8: the days of the month of startDate and endDate are the template's
\* startDay and endDay.
C8_DaysRecovered ==
    inst_pc = "done" =>
        /\ pay_period.start_date[3] = tpl.start_day
        /\ pay_period.end_date[3] = tpl.end_day

\* C8 as amended: startDay is always recovered; endDay is recovered when
\* endDate's month has that day, and otherwise endDate is the month's last
\* day.
C8_DaysRecoveredUnlessClamped ==
    inst_pc = "done" =>
        LET e == pay_period.end_date
        IN /\ pay_period.start_date[3] = tpl.start_day
           /\ IF tpl.end_day <= DaysIn(e[1], e[2])
              THEN e[3] = tpl.end_day
              ELSE e[3] = DaysIn(e[1], e[2]) /\ e[3] < tpl.end_day

C8_Witness ==
    /\ inst_pc = "done"
    /\ tpl.start_day = 1
    /\ tpl.end_day = 31
    /\ pay_period.start_date = <<2025, 4, 1>>
    /\ pay_period.end_date = <<2025, 4, 30>>

(***************************************************************************)
(* Claims: the classifier (SpecRelevance)                                  *)
(***************************************************************************)
DayOf(dt) == <<dt[1], dt[2], dt[3]>>

HasBothDates(pp) == pp.start_date # None /\ pp.end_date # None

\* today, whatever its time, is a day of [start_date, end_date]
ContainsToday(pp) ==
    /\ TupleLeq(DayOf(pp.start_date), DayOf(today))
    /\ TupleLeq(DayOf(today), DayOf(pp.end_date))

StartsAfterToday(pp) == TupleLess(DayOf(today), DayOf(pp.start_date))

EndsBeforeToday(pp) == TupleLess(DayOf(pp.end_date), DayOf(today))

\* C9: a period with both dates has one label: current iff
\* startDate <= today <= endDate by whole days, upcoming iff
\* startDate > today, past iff endDate < today.
C9_LabelsAsStated ==
    \A k \in 1..Len(pay_periods) :
        LET pp == pay_periods[k]
        IN HasBothDates(pp) =>
               /\ pp.relevance \in {"current", "upcoming", "past"}
               /\ pp.relevance = "current" <=> ContainsToday(pp)
               /\ pp.relevance = "upcoming" <=> StartsAfterToday(pp)
               /\ pp.relevance = "past" <=> EndsBeforeToday(pp)

\* C9 as amended: past iff endDate < today and startDate <= today (which is
\* endDate < today for every period with startDate <= endDate).
C9_LabelsByWholeDays ==
    \A k \in 1..Len(pay_periods) :
        LET pp == pay_periods[k]
        IN HasBothDates(pp) =>
               /\ pp.relevance \in {"current", "upcoming", "past"}
               /\ pp.relevance = "current" <=> ContainsToday(pp)
               /\ pp.relevance = "upcoming" <=> StartsAfterToday(pp)
               /\ pp.relevance = "past" <=>
                      (EndsBeforeToday(pp) /\ ~StartsAfterToday(pp))
               /\ TupleLeq(DayOf(pp.start_date), DayOf(pp.end_date)) =>
                      (pp.relevance = "past" <=> EndsBeforeToday(pp))

\* the last second of a period's end day
C9_Witness ==
    /\ rel_pc = "done"
    /\ <<today[4], today[5], today[6]>> = <<23, 59, 59>>
    /\ \E k \in 1..Len(pay_periods) :
           /\ HasBothDates(pay_periods[k])
           /\ TupleLess(DayOf(pay_periods[k].start_date), DayOf(today))
           /\ DayOf(pay_periods[k].end_date) = DayOf(today)
           /\ pay_periods[k].relevance = "current"

\* no day is in two of the periods
NonOverlapping(pps) ==
    \A a, b \in 1..Len(pps) :
        (a # b /\ HasBothDates(pps[a]) /\ HasBothDates(pps[b])) =>
            \/ TupleLess(DayOf(pps[a].end_date), DayOf(pps[b].start_date))
            \/ TupleLess(DayOf(pps[b].end_date), DayOf(pps[a].start_date))

\* main() has split the periods by their labels (lines 161-163) and picked
\* the period it shows: it has ended, or raised while writing that period
Selected ==
    \/ rel_pc = "done" /\ pay_periods # <<>>
    \/ rel_pc = "raised" /\ raised.line \in {173, 174, 183, 184}

\* C10: with non-overlapping periods and today within period p, p is
\* labelled current and no other period is; p alone is listed as current
\* and shown whenever main() gets to split the periods.
C10_OnlyContainingPeriodCurrent ==
    \A k \in 1..Len(pay_periods) :
        LET pp == pay_periods[k]
        IN (NonOverlapping(pay_periods) /\ HasBothDates(pp) /\ ContainsToday(pp)) =>
               /\ pp.relevance = "current"
               /\ \A j \in 1..Len(pay_periods) :
                      j # k => pay_periods[j].relevance # "current"
               /\ Selected =>
                      (current_periods = <<pp>> /\ shown_period = pp)

C10_Witness ==
    /\ rel_pc = "done"
    /\ Len(pay_periods) = 2
    /\ NonOverlapping(pay_periods)
    /\ \A k \in 1..2 :
           /\ HasBothDates(pay_periods[k])
           /\ TupleLeq(DayOf(pay_periods[k].start_date),
                       DayOf(pay_periods[k].end_date))
    /\ ContainsToday(pay_periods[2])
    /\ current_periods = <<pay_periods[2]>>
    /\ pay_periods[1].relevance = "upcoming"

\* main() got past the listing and reported
Reported == rel_pc = "done" /\ pay_periods # <<>>

\* the position of a period in the store's listing, which is the order of
\* the templates
ListedAt(pp) ==
    CHOOSE k \in 1..Len(pay_periods_table) : pay_periods_table[k].id = pp.id

\* the periods labelled current, by their positions in the store's listing
CurrentIds == {ListedAt(pay_periods[k]) : k \in {j \in 1..Len(pay_periods) :
                                                     pay_periods[j].relevance = "current"}}

\* C11: with zero or several current periods the selection does not fail,
\* takes the first current period in template order and reports the anomaly.
C11_AnomalySelectsFirstAndReports ==
    (Reported /\ Cardinality(CurrentIds) # 1) =>
        /\ no_current_warning
        /\ CurrentIds # {} =>
               /\ shown_period # None
               /\ \A k \in CurrentIds : ListedAt(shown_period) <= k

(***************************************************************************)
(* Claims: the aggregation (SpecTotals, SpecHours)                         *)
(***************************************************************************)
\* C12: a failed punch page request fails the whole aggregation: no totals
\* are made of the pages fetched before it.
C12_PageFailureIsFatal ==
    (tot_pc = "done" /\ tot_page_failed) =>
        /\ tot_filtered_punches = <<>>
        /\ tot_result.totalHours = TdZero

\* whether the link names a time card of the set
LinkedPunch(link, time_card_ids) ==
    link.ids # <<>> /\ link.ids[1] \in time_card_ids

\* whether no punch of the sequence has a time card of the set
NoneLinked(punches, time_card_ids) ==
    \A k \in 1..Len(punches) :
        ~LinkedPunch(punches[k].fields.time_card_id, time_card_ids)

\* whether the punch names an employee
HasEmployee(punch) ==
    LET link == punch.fields.employee_id
    IN link.ids # <<>> /\ ~Falsy(link.ids[1])

\* main() of test_employee_hours.py has made its summaries (lines 180-265):
\* it has ended, or raised while writing their rows
Summarised ==
    \/ hrs_pc = "done"
    \/ hrs_pc = "raised" /\ raised.line = 277

\* the case of C13: time cards, punches retrieved, none of them linked
LinkageMiss ==
    /\ Summarised
    /\ hrs_time_card_ids # {}
    /\ hrs_all_punches # <<>>
    /\ NoneLinked(hrs_all_punches, hrs_time_card_ids)

\* C13 as stated: on a linkage miss the unfiltered punches are used and the
\* result is not empty.
C13_FallbackResultNonEmpty ==
    LinkageMiss =>
        /\ hrs_filtered_punches = hrs_all_punches
        /\ hrs_employee_hours # <<>>

\* C13 as amended: on a linkage miss the filter selects the unfiltered
\* punches and reports the fallback, and the summaries made from them are
\* not empty exactly when at least one of the punches names an employee.
C13_FallbackUsesAllPunches ==
    LinkageMiss =>
        /\ hrs_filtered_punches = hrs_all_punches
        /\ hrs_fallback_reported
        /\ (\E k \in 1..Len(hrs_all_punches) : HasEmployee(hrs_all_punches[k]))
               <=> hrs_employee_hours # <<>>

C13_Witness ==
    /\ LinkageMiss
    /\ hrs_fallback_reported
    /\ Len(hrs_all_punches) = 2
    /\ hrs_filtered_punches = hrs_all_punches
    /\ hrs_employee_hours # <<>>

\* the positions of the punches used that belong to an employee
PositionsOf(emp_id) ==
    {k \in 1..Len(hrs_filtered_punches) :
         /\ HasEmployee(hrs_filtered_punches[k])
         /\ hrs_filtered_punches[k].fields.employee_id.ids[1] = emp_id}

\* the sum of the hours of the punches at the positions
RECURSIVE HoursAt(_)
HoursAt(positions) ==
    IF positions = {} THEN TdZero
    ELSE LET k == CHOOSE x \in positions : TRUE
         IN TdAdd(hrs_punch_hours(hrs_filtered_punches[k].fields).span,
                  HoursAt(positions \ {k}))

\* C14: one summary per distinct unwrapped employeeId among the punches
\* used; punchCount counts all punches of the employee, those of 0 hours
\* too; totalHours is the sum of their hours (2 h and 3.5 h give 5.5 h).
\* A run that ends before the linkage filter has used no punch and holds no
\* summary.
C14_OneSummaryPerEmployee ==
    /\ {hrs_employee_hours[j].employeeId : j \in 1..Len(hrs_employee_hours)}
           = {hrs_filtered_punches[k].fields.employee_id.ids[1] :
                  k \in {x \in 1..Len(hrs_filtered_punches) :
                             HasEmployee(hrs_filtered_punches[x])}}
    /\ \A i, j \in 1..Len(hrs_employee_hours) :
           i # j => hrs_employee_hours[i].employeeId
                        # hrs_employee_hours[j].employeeId
    /\ \A j \in 1..Len(hrs_employee_hours) :
           LET summary == hrs_employee_hours[j]
           IN /\ summary.punchCount =
                     Cardinality(PositionsOf(summary.employeeId))
              /\ summary.totalHours = HoursAt(PositionsOf(summary.employeeId))
    /\ ( /\ Len(hrs_filtered_punches) = 2
         /\ hrs_filtered_punches[1].id = "p1"
         /\ hrs_filtered_punches[2].id = "p2" ) =>
           /\ Len(hrs_employee_hours) = 1
           /\ hrs_employee_hours[1].totalHours = Td(0, 19800, 0)
           /\ hrs_employee_hours[1].punchCount = 2

\* 2 h and no punch out: two punches counted, 2 h in all
C14_Witness ==
    /\ hrs_pc = "done"
    /\ Len(hrs_filtered_punches) = 2
    /\ hrs_filtered_punches[1].id = "p1"
    /\ hrs_filtered_punches[2].id = "p3"
    /\ Len(hrs_employee_hours) = 1
    /\ hrs_employee_hours[1].punchCount = 2
    /\ hrs_employee_hours[1].totalHours = Hours(2)

\* C15: every totalHours returned is non-negative and rounded to 2 decimal
\* places (a whole number of hundredths of an hour).
C15_TotalsNonNegativeAndRounded ==
    hrs_pc = "done" =>
        \A j \in 1..Len(hrs_employee_hours) :
            /\ ~TdLess(hrs_employee_hours[j].totalHours, TdZero)
            /\ hrs_employee_hours[j].totalHours.microseconds = 0
            /\ hrs_employee_hours[j].totalHours.seconds % 36 = 0

\* C16: when paging stops although the last response reported more pages,
\* the safety ceiling is reported.
C16_StopWithMorePagesIsReported ==
    ( /\ tot_pc \in {"aggregate", "done"}
      /\ tot_requests # <<>>
      /\ ~tot_page_failed
      /\ tot_has_more ) => tot_limit_reported

(***************************************************************************)
(* Claims: the aggregation, both scripts (SpecAggregators)                 *)
(***************************************************************************)
\* whether the offsets requested are 0, L, 2L, ... in this order
InOffsetOrder(requests) ==
    \A k \in 1..Len(requests) : requests[k].offset = (k - 1) * page_limit

\* whether every request but the last was answered with more pages to come
OnlyAfterMore(requests) ==
    \A k \in 1..(Len(requests) - 1) : page_response(requests[k].offset).hasMore

\* C22: the punch pages are requested in offset order 0, L, 2L, ..., each
\* offset at most once, each after the response to the one before, and none
\* after a response that reported no more pages.
C22_PagesInOffsetOrder ==
    /\ InOffsetOrder(tot_requests)
    /\ OnlyAfterMore(tot_requests)
    /\ tot_pc = "page" => tot_has_more /\ ~tot_page_failed
    /\ InOffsetOrder(hrs_requests)
    /\ OnlyAfterMore(hrs_requests)
    /\ hrs_pc = "page" => ~hrs_page_failed

\* the requests of a paging loop: the listings that carry the date filters
LoopRequests(requests) == SelectSeq(requests, LAMBDA r : r.filters)

\* the positions of the listings made without filters
TrialListings(requests) == {k \in 1..Len(requests) : ~requests[k].filters}

\* C22 as amended: that holds of the requests of the two paging loops;
\* besides them calculate_pay_period_totals lists the punches once more from
\* offset 0, without filters and with a limit of 5, when its first page
\* request has failed, and requests nothing after that.
C22_LoopPagesInOffsetOrder ==
    /\ InOffsetOrder(LoopRequests(tot_requests))
    /\ OnlyAfterMore(LoopRequests(tot_requests))
    /\ \A k \in 1..Len(tot_requests) :
           tot_requests[k].filters => tot_requests[k].limit = page_limit
    /\ tot_pc = "page" => tot_has_more /\ ~tot_page_failed
    /\ \A k \in TrialListings(tot_requests) :
           /\ tot_requests = <<Request(0, page_limit, TRUE), Request(0, 5, FALSE)>>
           /\ tot_page_failed
           /\ tot_pc # "page"
    /\ (tot_page_failed /\ tot_offset = 0) => TrialListings(tot_requests) # {}
    /\ hrs_requests = LoopRequests(hrs_requests)
    /\ InOffsetOrder(hrs_requests)
    /\ OnlyAfterMore(hrs_requests)
    /\ hrs_pc = "page" => ~hrs_page_failed

\* two pages fetched, the second one reporting no more
C22_Witness ==
    /\ tot_pc = "done"
    /\ tot_requests = <<Request(0, page_limit, TRUE),
                        Request(page_limit, page_limit, TRUE)>>
    /\ ~tot_has_more
    /\ ~tot_page_failed
    /\ Len(tot_all_punches) = 2

\* the time card of a punch as the script resolves it: the totals script
\* reads the field under the names time_card_id and 'Time Card', the hours
\* script under the name time_card_id
TimeCardOf(punch, totals) ==
    IF totals /\ ~link_truthy(punch.fields.time_card_id)
    THEN punch.fields["Time Card"]
    ELSE punch.fields.time_card_id

\* the rule of C23 for the punches retrieved, the time cards, the punches
\* used and the report of the fallback
LinkageRule(all_punches, time_card_ids, used, reported, totals) ==
    IF time_card_ids = {} THEN used = all_punches
    ELSE IF \A k \in 1..Len(all_punches) :
                ~LinkedPunch(TimeCardOf(all_punches[k], totals), time_card_ids)
    THEN used = all_punches /\ reported
    ELSE used = SelectSeq(all_punches,
                          LAMBDA p : LinkedPunch(TimeCardOf(p, totals),
                                                 time_card_ids))

\* C23: with time cards and at least one retrieved punch linked to one of
\* them, exactly the linked punches are used; with time cards and no linked
\* punch, all retrieved punches are used and the fallback is reported; with
\* no time cards, all retrieved punches are used.
C23_LinkageFilter ==
    /\ tot_pc = "done" /\ "punchCount" \in DOMAIN tot_result =>
           /\ LinkageRule(tot_all_punches, tot_time_card_ids,
                          tot_filtered_punches, tot_fallback_reported, TRUE)
           /\ tot_result.punchCount = Len(tot_filtered_punches)
    /\ tot_pc = "raised" /\ raised.line = 215 =>
           LinkageRule(tot_all_punches, tot_time_card_ids,
                       tot_filtered_punches, tot_fallback_reported, TRUE)
    /\ Summarised =>
           LinkageRule(hrs_all_punches, hrs_time_card_ids,
                       hrs_filtered_punches, hrs_fallback_reported, FALSE)

\* of two punches retrieved, the one linked to the time card is used
C23_Witness ==
    /\ hrs_pc = "done"
    /\ hrs_time_card_ids = {Card(1)}
    /\ Len(hrs_all_punches) = 2
    /\ ~LinkedPunch(hrs_all_punches[1].fields.time_card_id, hrs_time_card_ids)
    /\ LinkedPunch(hrs_all_punches[2].fields.time_card_id, hrs_time_card_ids)
    /\ hrs_filtered_punches = <<hrs_all_punches[2]>>
    /\ ~hrs_fallback_reported

\* the hours C24 gives a punch: its duration when that is a positive
\* number, else what its timestamps give (zero when one is missing)
StatedHours(fields) ==
    IF fields.duration.kind = "num" /\ TdLess(TdZero, fields.duration.span)
    THEN fields.duration.span
    ELSE hrs_calculate_hours(fields.punch_in_time, fields.punch_out_time).span

RECURSIVE StatedHoursAt(_)
StatedHoursAt(positions) ==
    IF positions = {} THEN TdZero
    ELSE LET k == CHOOSE x \in positions : TRUE
         IN TdAdd(StatedHours(hrs_filtered_punches[k].fields),
                  StatedHoursAt(positions \ {k}))

\* C24: a punch with a duration that is a positive number contributes that
\* duration whatever its timestamps are; any other punch contributes the
\* difference of its timestamps, zero when one of them is missing.
C24_DurationElseTimestamps ==
    hrs_pc = "done" =>
        \A j \in 1..Len(hrs_employee_hours) :
            hrs_employee_hours[j].totalHours
                = StatedHoursAt(PositionsOf(hrs_employee_hours[j].employeeId))

\* C25: every punch contributes between 0 and 24 hours, from its duration
\* or from its timestamps, so the total of n punches is between 0 and 24 n
\* hours.
C25_PerPunchWithinDay ==
    (tot_pc = "done" /\ "punchCount" \in DOMAIN tot_result) =>
        /\ \A k \in 1..Len(tot_filtered_punches) :
               LET hours == tot_punch_hours(tot_filtered_punches[k].fields)
               IN /\ hours.kind = "finite"
                  /\ ~TdLess(hours.span, TdZero)
                  /\ ~TdLess(Hours(24), hours.span)
        /\ ~TdLess(tot_result.totalHours, TdZero)
        /\ ~TdLess(Hours(24 * tot_result.punchCount), tot_result.totalHours)

\* whether the text is a timestamp that cannot be parsed
Unparseable(text) == ~NoText(text) /\ ~fromisoformat(ReplaceZ(text)).ok

\* the positions of the punches with an unparseable timestamp
UnparseableIn(punches) ==
    {k \in 1..Len(punches) :
         \/ Unparseable(punches[k].fields.punch_in_time)
         \/ Unparseable(punches[k].fields.punch_out_time)}

\* the punches at the positions, in their order
RECURSIVE PunchesAt(_, _)
PunchesAt(punches, positions) ==
    IF punches = <<>> THEN <<>>
    ELSE PunchesAt(SubSeq(punches, 1, Len(punches) - 1), positions)
             \o (IF Len(punches) \in positions
                 THEN <<punches[Len(punches)]>> ELSE <<>>)

\* the totals the totals script may give the punches at the positions
TotHoursAt(punches, positions) ==
    round_2dp(total_of(tot_contributions(PunchesAt(punches, positions))))

\* C26: every punch with an unparseable timestamp contributes no hours, is
\* counted and is flagged, and the other punches are summed; no run ends
\* in an exception at a punch with an unparseable timestamp.
C26_UnparseableIsFlagged ==
    /\ (tot_pc = "done" /\ "punchCount" \in DOMAIN tot_result) =>
           LET bad == UnparseableIn(tot_filtered_punches)
           IN /\ tot_result.punchCount = Len(tot_filtered_punches)
              /\ tot_flagged >= Cardinality(bad)
              /\ tot_result.totalHours \in
                     TotHoursAt(tot_filtered_punches,
                                (1..Len(tot_filtered_punches)) \ bad)
    /\ (hrs_pc = "raised" /\ raised.line \in {174, 175}) =>
           UnparseableIn(<<hrs_all_punches[1]>>) = {}

\* C29: whatever the store answers, the paging loop ends within
\* safety_limit / page_limit = 5 page requests and safety_limit punches.
C29_PagingBounded ==
    /\ Len(hrs_requests) * page_limit <= safety_limit
    /\ Len(hrs_all_punches) <= safety_limit

\* C30: calculate_pay_period_totals returns totalHours, timeCardCount and
\* punchCount on every path, the failed time card listing included.
C30_ResultHasThreeFields ==
    tot_pc = "done" =>
        DOMAIN tot_result = {"totalHours", "timeCardCount", "punchCount"}

(***************************************************************************)
(* Claims: the parser (SpecParse)                                                           *)
(***************************************************************************)
\* what dropping only the bad tokens would return: the integers of the
\* numeric tokens, in order
KeepNumericTokens(s) ==
    IF s = None THEN <<>>
    ELSE LET good == SelectSeq(StrippedTokens(s), IsInt)
         IN [i \in 1..Len(good) |-> ToInt(good[i])]

\* C3: the parser returns the integers of the text in their order, dropping
\* each non-numeric or empty token and keeping the others; empty or null
\* input gives the empty sequence.
C3_DropsOnlyBadTokens ==
    parse_pc = "done" => parsed = KeepNumericTokens(days_str)

\* the part of C3 the code does satisfy: empty or null input gives []
C3_EmptyInputGivesEmpty ==
    (parse_pc = "done" /\ (days_str = None \/ days_str = <<>>)) => parsed = <<>>

====
